---------------------------- MODULE Spec2Model ----------------------------
(***************************************************************************)
(* V2G consulting engine: the qualitative scorer (v2g_score_analyzer.py),  *)
(* the revenue / cost / ROI model (v2g_business_analyzer.py), the          *)
(* recommendation combiner and the web wrappers                            *)
(* (v2g_integrated_analyzer.py), the Monte Carlo loop of risk_analysis and *)
(* the web entry of the comprehensive analysis (advances_analysis.py),     *)
(* and the basic_analysis route of the web server (run_server_jupyter.py). *)
(*                                                                         *)
(* Numbers.  The program computes in Python floats.  The model computes    *)
(* in exact rationals [n |-> numerator, d |-> denominator], normalised     *)
(* (d > 0, gcd(n, d) = 1), so that equality of values is equality of       *)
(* records.  float('inf') is the record Inf.  Rounding error of the last   *)
(* binary digit is therefore outside the model.  TLC's integers are 32     *)
(* bits wide: money is counted in units of 100 won and the capacities of   *)
(* the business model are drawn so that no numerator exceeds that range    *)
(* (TLC stops with an error on an overflow, it never wraps).               *)
(*                                                                         *)
(* Strings.  The Korean region names and labels of the source are          *)
(* romanised: sudogwon, chungcheong, yeongnam, honam, gangwon, jeju,       *)
(* gyeongsang, jeolla, sejong, gwangju, daejeon, daegu, incheon, busan,    *)
(* ulsan; the confidence labels are very_high, high, moderate, low.        *)
(*                                                                         *)
(* State.  The analyzers hold no mutable state of their own; the state of  *)
(* the model is the last call made on them: op (the function called),      *)
(* args (its arguments) and result (what it returned, or the exception it  *)
(* raised, as [raised |-> "ZeroDivisionError"]).  While risk_analysis is   *)
(* inside its loop, result holds its two lists and the local variables of  *)
(* the last trial.                                                         *)
(* The one piece of state that outlives a call is numpy's process-wide     *)
(* random generator, from which calculate_smp_revenue and risk_analysis    *)
(* draw: generator.  Spec, RiskSpec and SeededSpec follow one call at a    *)
(* time and leave open which draws it sees (the source of the call's       *)
(* draws is one of its arguments), as does WebSpec for the calls of the    *)
(* web server; SharedSpec follows the generator through a sequence of      *)
(* calls.                                                                  *)
(***************************************************************************)
EXTENDS Integers, Sequences, FiniteSets, TLC

VARIABLES op, args, result, generator

vars == <<op, args, result, generator>>

---------------------------------------------------------------------------
(* Exact rational arithmetic standing for Python's float arithmetic.       *)

Abs(x) == IF x < 0 THEN -x ELSE x

RECURSIVE GCD(_, _)
GCD(a, b) == IF b = 0 THEN a ELSE GCD(b, a % b)

Q(n, d) ==
    LET g == GCD(Abs(n), Abs(d))
        s == IF d < 0 THEN -1 ELSE 1
    IN  [n |-> s * (n \div g), d |-> s * (d \div g)]

R(i) == [n |-> i, d |-> 1]

Inf == [n |-> 1, d |-> 0]

RNeg(a) == [n |-> -a.n, d |-> a.d]

RAdd(a, b) ==
    LET g == GCD(a.d, b.d)
    IN  Q(a.n * (b.d \div g) + b.n * (a.d \div g), (a.d \div g) * b.d)

RSub(a, b) == RAdd(a, RNeg(b))

RMul(a, b) ==
    LET g1 == GCD(Abs(a.n), b.d)
        g2 == GCD(Abs(b.n), a.d)
    IN  Q((a.n \div g1) * (b.n \div g2), (a.d \div g2) * (b.d \div g1))

\* a / b for b # 0; the callers raise ZeroDivisionError before using it on 0.
RDiv(a, b) == RMul(a, Q(b.d, b.n))

\* a < b and a <= b by cross-multiplication, the common factor of the two
\* denominators taken out first
RLt(a, b) ==
    LET g == GCD(a.d, b.d)
    IN  IF g = 0 THEN a.n < b.n
        ELSE a.n * (b.d \div g) < b.n * (a.d \div g)

RLe(a, b) ==
    LET g == GCD(a.d, b.d)
    IN  IF g = 0 THEN a.n <= b.n
        ELSE a.n * (b.d \div g) <= b.n * (a.d \div g)

RGt(a, b) == RLt(b, a)
RGe(a, b) == RLe(b, a)

RAbs(a) == [n |-> Abs(a.n), d |-> a.d]

RECURSIVE RSum(_)
\* sum(s), left to right; an infinite partial sum stays as it is
RSum(s) ==
    IF s = <<>> THEN R(0)
    ELSE LET before == RSum(SubSeq(s, 1, Len(s) - 1))
         IN  IF before.d = 0 THEN before ELSE RAdd(before, s[Len(s)])

\* Python's round(x, 1): the nearest tenth, a tie going to the even tenth.
Round1(x) ==
    LET t    == RMul(x, R(10))
        f    == t.n \div t.d
        rem2 == 2 * (t.n - f * t.d)
        r    == IF rem2 < t.d THEN f
                ELSE IF rem2 > t.d THEN f + 1
                ELSE IF f % 2 = 0 THEN f ELSE f + 1
    IN  Q(r, 10)

---------------------------------------------------------------------------
(* V2GScoreAnalyzer                                                        *)

dr_preferred_regions ==
    {"sudogwon", "sejong", "gwangju", "daejeon", "daegu", "gangwon"}

smp_preferred_regions ==
    {"incheon", "busan", "ulsan", "gyeongsang", "chungcheong", "jeolla", "jeju"}

\* region_mapping that resolves no alias
region_mapping_unresolved(location) == location

\* self.region_mapping.get(location, location)
region_mapping(location) ==
    IF location = "yeongnam" THEN "gyeongsang"
    ELSE IF location = "honam" THEN "jeolla"
    ELSE location

\* calculate_region_score with the points of the scale category pasted into
\* the DR-preferred branch
calculate_region_score_pasted(location) ==
    LET mapped_location == region_mapping(location)
    IN  IF location \in dr_preferred_regions \/ mapped_location \in dr_preferred_regions
        THEN <<R(25), R(10)>>
        ELSE IF location \in smp_preferred_regions \/ mapped_location \in smp_preferred_regions
        THEN <<R(10), R(20)>>
        ELSE <<R(15), R(15)>>

calculate_region_score(location) ==
    LET mapped_location == region_mapping(location)
    IN  IF location \in dr_preferred_regions \/ mapped_location \in dr_preferred_regions
        THEN <<R(20), R(10)>>
        ELSE IF location \in smp_preferred_regions \/ mapped_location \in smp_preferred_regions
        THEN <<R(10), R(20)>>
        ELSE <<R(15), R(15)>>

\* calculate_scale_score with the band boundaries exclusive below
calculate_scale_score_exclusive(capacity_kw) ==
    IF RLt(capacity_kw, R(3000)) THEN <<R(25), R(4)>>
    ELSE IF RLe(R(3000), capacity_kw) /\ RLt(capacity_kw, R(8000)) THEN <<R(17), R(13)>>
    ELSE IF RLe(R(8000), capacity_kw) /\ RLt(capacity_kw, R(15000)) THEN <<R(11), R(19)>>
    ELSE <<R(6), R(25)>>

calculate_scale_score(capacity_kw) ==
    IF RLe(capacity_kw, R(3000)) THEN <<R(25), R(4)>>
    ELSE IF RLt(R(3000), capacity_kw) /\ RLe(capacity_kw, R(8000)) THEN <<R(17), R(13)>>
    ELSE IF RLt(R(8000), capacity_kw) /\ RLe(capacity_kw, R(15000)) THEN <<R(11), R(19)>>
    ELSE <<R(6), R(25)>>

\* calculate_risk_score without the neutral default
calculate_risk_score_no_default(risk_preference) ==
    IF risk_preference = "stable" THEN <<R(12), R(0)>>
    ELSE IF risk_preference = "neutral" THEN <<R(6), R(6)>>
    ELSE IF risk_preference = "high_risk" THEN <<R(0), R(12)>>
    ELSE <<R(0), R(0)>>

calculate_risk_score(risk_preference) ==
    IF risk_preference = "stable" THEN <<R(12), R(0)>>
    ELSE IF risk_preference = "neutral" THEN <<R(6), R(6)>>
    ELSE IF risk_preference = "high_risk" THEN <<R(0), R(12)>>
    ELSE <<R(6), R(6)>>

\* calculate_parking_pattern_score with 0.5 in the upper band
calculate_parking_pattern_score_inclusive(regular_pattern_ratio, dr_dispatch_time_ratio) ==
    LET weights ==
            IF RGe(dr_dispatch_time_ratio, Q(5, 10)) THEN <<Q(8, 10), Q(2, 10)>>
            ELSE IF RLe(Q(25, 100), dr_dispatch_time_ratio)
            THEN <<Q(5, 10), Q(5, 10)>>
            ELSE <<Q(2, 10), Q(8, 10)>>
    IN  <<RMul(R(16), weights[1]), RMul(R(16), weights[2])>>

calculate_parking_pattern_score(regular_pattern_ratio, dr_dispatch_time_ratio) ==
    LET weights ==
            IF RGt(dr_dispatch_time_ratio, Q(5, 10)) THEN <<Q(8, 10), Q(2, 10)>>
            ELSE IF RLe(Q(25, 100), dr_dispatch_time_ratio)
                    /\ RLe(dr_dispatch_time_ratio, Q(5, 10))
            THEN <<Q(5, 10), Q(5, 10)>>
            ELSE <<Q(2, 10), Q(8, 10)>>
        total_points == R(16)
    IN  <<RMul(total_points, weights[1]), RMul(total_points, weights[2])>>

\* calculate_infrastructure_score matching a band on either value
calculate_infrastructure_score_either(charging_spots, power_capacity_mva) ==
    IF charging_spots > 200 \/ RGt(power_capacity_mva, Q(10, 10))
    THEN <<R(1), R(5)>>
    ELSE IF (120 < charging_spots /\ charging_spots <= 200)
            \/ (RLt(Q(6, 10), power_capacity_mva) /\ RLe(power_capacity_mva, Q(10, 10)))
    THEN <<R(2), R(4)>>
    ELSE IF (80 < charging_spots /\ charging_spots <= 120)
            \/ (RLt(Q(4, 10), power_capacity_mva) /\ RLe(power_capacity_mva, Q(6, 10)))
    THEN <<R(3), R(3)>>
    ELSE IF (40 < charging_spots /\ charging_spots <= 80)
            \/ (RLt(Q(2, 10), power_capacity_mva) /\ RLe(power_capacity_mva, Q(4, 10)))
    THEN <<R(4), R(2)>>
    ELSE <<R(5), R(1)>>

calculate_infrastructure_score(charging_spots, power_capacity_mva) ==
    IF charging_spots > 200 /\ RGt(power_capacity_mva, Q(10, 10))
    THEN <<R(1), R(5)>>
    ELSE IF 120 < charging_spots /\ charging_spots <= 200
            /\ RLt(Q(6, 10), power_capacity_mva) /\ RLe(power_capacity_mva, Q(10, 10))
    THEN <<R(2), R(4)>>
    ELSE IF 80 < charging_spots /\ charging_spots <= 120
            /\ RLt(Q(4, 10), power_capacity_mva) /\ RLe(power_capacity_mva, Q(6, 10))
    THEN <<R(3), R(3)>>
    ELSE IF 40 < charging_spots /\ charging_spots <= 80
            /\ RLt(Q(2, 10), power_capacity_mva) /\ RLe(power_capacity_mva, Q(4, 10))
    THEN <<R(4), R(2)>>
    ELSE IF charging_spots <= 40 /\ RLe(power_capacity_mva, Q(2, 10))
    THEN <<R(5), R(1)>>
    ELSE <<R(3), R(3)>>

get_ratio_score(ratio) ==
    IF RGt(ratio, Q(6, 10)) THEN R(5)
    ELSE IF RLt(Q(4, 10), ratio) /\ RLe(ratio, Q(6, 10)) THEN R(4)
    ELSE IF RLt(Q(3, 10), ratio) /\ RLe(ratio, Q(4, 10)) THEN R(3)
    ELSE IF RLt(Q(2, 10), ratio) /\ RLe(ratio, Q(3, 10)) THEN R(2)
    ELSE R(1)

\* calculate_charger_ratio_score with the SMP ratio taken from the smart ports
calculate_charger_ratio_score_same_ports(total_ports, smart_ocpp_ports, v2g_ports) ==
    LET r_dr  == IF total_ports > 0 THEN Q(smart_ocpp_ports, total_ports) ELSE R(0)
        r_smp == IF total_ports > 0 THEN Q(smart_ocpp_ports, total_ports) ELSE R(0)
    IN  <<get_ratio_score(r_dr), get_ratio_score(r_smp)>>

calculate_charger_ratio_score(total_ports, smart_ocpp_ports, v2g_ports) ==
    LET r_dr  == IF total_ports > 0 THEN Q(smart_ocpp_ports, total_ports) ELSE R(0)
        r_smp == IF total_ports > 0 THEN Q(v2g_ports, total_ports) ELSE R(0)
    IN  <<get_ratio_score(r_dr), get_ratio_score(r_smp)>>

\* calculate_brand_score with an even pair for the other brands
calculate_brand_score_even(brand_type) ==
    IF brand_type = "b2g_large" THEN <<R(3), R(0)>> ELSE <<R(3), R(3)>>

calculate_brand_score(brand_type) ==
    IF brand_type = "b2g_large" THEN <<R(3), R(0)>> ELSE <<R(1), R(3)>>

\* battery_scores with every threshold in the band above it
battery_scores_inclusive(avg_soh) ==
    <<R(14),
      IF RGe(avg_soh, Q(95, 100)) THEN R(14)
      ELSE IF RLe(Q(85, 100), avg_soh) /\ RLt(avg_soh, Q(95, 100)) THEN R(10)
      ELSE IF RLe(Q(70, 100), avg_soh) /\ RLt(avg_soh, Q(85, 100)) THEN R(5)
      ELSE R(0)>>

\* lines 178-190: the two scores of the average SOH
battery_scores(avg_soh) ==
    <<R(14),
      IF RGt(avg_soh, Q(95, 100)) THEN R(14)
      ELSE IF RLt(Q(85, 100), avg_soh) /\ RLe(avg_soh, Q(95, 100)) THEN R(10)
      ELSE IF RLt(Q(70, 100), avg_soh) /\ RLe(avg_soh, Q(85, 100)) THEN R(5)
      ELSE R(0)>>

\* soh_normalized without the division
soh_normalized_skipped(x, total_ratio) == x

\* lines 166-170: x /= total_ratio when total_ratio > 0
soh_normalized(x, total_ratio) ==
    IF RGt(total_ratio, R(0)) THEN RDiv(x, total_ratio) ELSE x

\* lines 173-176
avg_soh_of(soh_under_70, soh_70_85, soh_85_95, soh_over_95, total_ratio) ==
    RSum(<<RMul(soh_normalized(soh_under_70, total_ratio), Q(7, 10)),
           RMul(soh_normalized(soh_70_85, total_ratio), Q(775, 1000)),
           RMul(soh_normalized(soh_85_95, total_ratio), Q(9, 10)),
           RMul(soh_normalized(soh_over_95, total_ratio), Q(975, 1000))>>)

calculate_battery_degradation_score(soh_under_70, soh_70_85, soh_85_95, soh_over_95) ==
    battery_scores(
        avg_soh_of(soh_under_70, soh_70_85, soh_85_95, soh_over_95,
                   RSum(<<soh_under_70, soh_70_85, soh_85_95, soh_over_95>>)))

\* calculate_budget_score with every threshold in the band below it
calculate_budget_score_inclusive(budget_billion) ==
    IF RLe(budget_billion, R(10)) THEN <<R(10), R(0)>>
    ELSE IF RLt(R(10), budget_billion) /\ RLe(budget_billion, R(30)) THEN <<R(8), R(2)>>
    ELSE IF RLt(R(30), budget_billion) /\ RLe(budget_billion, R(80)) THEN <<R(6), R(4)>>
    ELSE IF RLt(R(80), budget_billion) /\ RLe(budget_billion, R(150)) THEN <<R(5), R(5)>>
    ELSE IF RLt(R(150), budget_billion) /\ RLe(budget_billion, R(300)) THEN <<R(4), R(6)>>
    ELSE IF RLt(R(300), budget_billion) /\ RLe(budget_billion, R(500)) THEN <<R(2), R(8)>>
    ELSE <<R(0), R(10)>>

calculate_budget_score(budget_billion) ==
    IF RLt(budget_billion, R(10)) THEN <<R(10), R(0)>>
    ELSE IF RLe(R(10), budget_billion) /\ RLt(budget_billion, R(30)) THEN <<R(8), R(2)>>
    ELSE IF RLe(R(30), budget_billion) /\ RLt(budget_billion, R(80)) THEN <<R(6), R(4)>>
    ELSE IF RLe(R(80), budget_billion) /\ RLt(budget_billion, R(150)) THEN <<R(5), R(5)>>
    ELSE IF RLe(R(150), budget_billion) /\ RLt(budget_billion, R(300)) THEN <<R(4), R(6)>>
    ELSE IF RLe(R(300), budget_billion) /\ RLt(budget_billion, R(500)) THEN <<R(2), R(8)>>
    ELSE <<R(0), R(10)>>

\* The keys of detailed_scores, in the order the dict is built and summed.
Categories ==
    <<"region", "scale", "risk", "parking", "infrastructure",
      "charger", "brand", "battery", "budget">>

\* One entry of detailed_scores.
Entry(pair, max) == [dr |-> pair[1], smp |-> pair[2], max |-> max]

detailed_scores_of(input_data) ==
    [region  |-> Entry(calculate_region_score(input_data.location), 20),
     scale   |-> Entry(calculate_scale_score(input_data.capacity_kw), 25),
     risk    |-> Entry(calculate_risk_score(input_data.risk_preference), 12),
     parking |-> Entry(calculate_parking_pattern_score(
                           input_data.regular_pattern_ratio,
                           input_data.dr_dispatch_time_ratio), 16),
     infrastructure |-> Entry(calculate_infrastructure_score(
                           input_data.charging_spots,
                           input_data.power_capacity_mva), 5),
     charger |-> Entry(calculate_charger_ratio_score(
                           input_data.total_ports,
                           input_data.smart_ocpp_ports,
                           input_data.v2g_ports), 5),
     brand   |-> Entry(calculate_brand_score(input_data.brand_type), 3),
     battery |-> Entry(calculate_battery_degradation_score(
                           input_data.soh_under_70_ratio,
                           input_data.soh_70_85_ratio,
                           input_data.soh_85_95_ratio,
                           input_data.soh_over_95_ratio), 14),
     budget  |-> Entry(calculate_budget_score(input_data.budget_billion), 10)]

\* sum(scores[side] for scores in detailed_scores.values())
total_of(detailed_scores, side) ==
    RSum([i \in 1..Len(Categories) |-> detailed_scores[Categories[i]][side]])

\* recommend with a tie going to DR
recommend_tie_dr(total_dr, total_smp) == IF RGe(total_dr, total_smp) THEN "DR" ELSE "SMP"

recommend(total_dr, total_smp) == IF RGt(total_dr, total_smp) THEN "DR" ELSE "SMP"

\* lines 244-258: the returned dict
comprehensive_result(input_data, detailed_scores, total_dr, total_smp) ==
    [raised          |-> "none",
     total_scores    |-> [dr |-> Round1(total_dr), smp |-> Round1(total_smp)],
     detailed_scores |-> detailed_scores,
     recommendation  |-> recommend(total_dr, total_smp),
     score_gap       |-> RAbs(RSub(total_dr, total_smp)),
     input_summary   |-> [capacity_kw     |-> input_data.capacity_kw,
                          location        |-> input_data.location,
                          budget_billion  |-> input_data.budget_billion,
                          risk_preference |-> input_data.risk_preference]]

\* lines 240-242: the totals of the detailed scores
comprehensive_totals(input_data, detailed_scores) ==
    comprehensive_result(input_data, detailed_scores,
                         total_of(detailed_scores, "dr"),
                         total_of(detailed_scores, "smp"))

calculate_comprehensive_score(input_data) ==
    comprehensive_totals(input_data, detailed_scores_of(input_data))

---------------------------------------------------------------------------
(* V2GBusinessAnalyzer.  Money is counted in units of 100 won: Won(x) is   *)
(* the amount the source writes as x.                                      *)

Won(x) == Q(x, 100)

\* A raised exception, as the result of a call.
Raise(e) == [raised |-> e]

\* sum(d.values()) of a dict d
RECURSIVE SumOver(_, _)
SumOver(f, keys) ==
    IF keys = {} THEN R(0)
    ELSE LET k == CHOOSE x \in keys : TRUE
         IN  RAdd(f[k], SumOver(f, keys \ {k}))

SumValues(f) == SumOver(f, DOMAIN f)

\* dr_rates with twice the reduction fee
dr_rates_reduction_doubled ==
    [basic_rate |-> Won(3000), reduction_rate |-> Won(300), capacity_rate |-> Won(2000)]

\* self.dr_rates: basic fee (won/kW/month), reduction fee (won/kWh),
\* available-capacity fee (won/kW/month)
dr_rates ==
    [basic_rate |-> Won(3000), reduction_rate |-> Won(150), capacity_rate |-> Won(2000)]

smp_base_price == Won(85)

operation_hours == 8760

dr_location_factor(location) ==
    CASE location = "sudogwon"    -> Q(12, 10)
      [] location = "chungcheong" -> Q(10, 10)
      [] location = "yeongnam"    -> Q(11, 10)
      [] location = "honam"       -> Q(9, 10)
      [] location = "gangwon"     -> Q(8, 10)
      [] location = "jeju"        -> Q(7, 10)
      [] OTHER                    -> Q(10, 10)

seasonal_factors ==
    <<Q(13, 10), Q(11, 10), Q(8, 10), Q(7, 10), Q(9, 10), Q(14, 10),
      Q(15, 10), Q(14, 10), Q(10, 10), Q(8, 10), Q(10, 10), Q(12, 10)>>

dr_monthly_basic(capacity_kw) == RMul(capacity_kw, dr_rates.basic_rate)

dr_monthly_capacity(capacity_kw, location) ==
    RMul(RMul(capacity_kw, dr_rates.capacity_rate), dr_location_factor(location))

\* the reduction revenue of one month: line 51-53
dr_monthly_reduction_revenue(capacity_kw, annual_utilization, month) ==
    LET monthly_utilization == RMul(annual_utilization, seasonal_factors[month])
        monthly_reduction   ==
            RMul(RMul(RMul(capacity_kw, R(30)), R(2)), monthly_utilization)
    IN  RMul(monthly_reduction, dr_rates.reduction_rate)

\* dr_total_monthly without the available-capacity fee
dr_total_monthly_no_capacity(capacity_kw, location, annual_utilization, month) ==
    RAdd(dr_monthly_basic(capacity_kw),
         dr_monthly_reduction_revenue(capacity_kw, annual_utilization, month))

\* the body of the loop over the months: line 55
dr_total_monthly(capacity_kw, location, annual_utilization, month) ==
    RAdd(RAdd(dr_monthly_basic(capacity_kw), dr_monthly_capacity(capacity_kw, location)),
         dr_monthly_reduction_revenue(capacity_kw, annual_utilization, month))

\* the loop of lines 46-57, run over the first `months` seasonal factors
RECURSIVE dr_loop(_, _, _, _)
dr_loop(capacity_kw, location, annual_utilization, months) ==
    IF months = 0
    THEN [annual_revenue |-> R(0), monthly_revenues |-> <<>>]
    ELSE LET before == dr_loop(capacity_kw, location, annual_utilization, months - 1)
             total_monthly ==
                 dr_total_monthly(capacity_kw, location, annual_utilization, months)
         IN  [monthly_revenues |-> Append(before.monthly_revenues, total_monthly),
              annual_revenue   |-> RAdd(before.annual_revenue, total_monthly)]

calculate_dr_revenue(capacity_kw, location, annual_utilization) ==
    LET monthly_basic    == dr_monthly_basic(capacity_kw)
        monthly_capacity == dr_monthly_capacity(capacity_kw, location)
        loop == dr_loop(capacity_kw, location, annual_utilization, Len(seasonal_factors))
    IN  [raised           |-> "none",
         annual_revenue   |-> loop.annual_revenue,
         monthly_revenues |-> loop.monthly_revenues,
         basic_fee        |-> RMul(monthly_basic, R(12)),
         capacity_fee     |-> RMul(monthly_capacity, R(12)),
         reduction_fee    |-> RSub(RSum(loop.monthly_revenues),
                                   RMul(RAdd(monthly_basic, monthly_capacity), R(12)))]

location_smp_factor(location) ==
    CASE location = "sudogwon"    -> Q(100, 100)
      [] location = "chungcheong" -> Q(95, 100)
      [] location = "yeongnam"    -> Q(98, 100)
      [] location = "honam"       -> Q(92, 100)
      [] location = "gangwon"     -> Q(88, 100)
      [] location = "jeju"        -> Q(85, 100)
      [] OTHER                    -> Q(100, 100)

\* in tenths: 0.7, 0.6, ... for the hours 0..23
hourly_smp_factors ==
    <<7, 6, 6, 7, 8, 9, 10, 11,
      12, 11, 10, 10, 11, 12, 13, 14,
      15, 16, 17, 15, 13, 11, 9, 8>>

seasonal_demand_factors ==
    <<Q(12, 10), Q(11, 10), Q(9, 10), Q(8, 10), Q(7, 10), Q(13, 10),
      Q(14, 10), Q(13, 10), Q(10, 10), Q(9, 10), Q(10, 10), Q(11, 10)>>

days_in_month == 30

\* np.random.random(): a value k / DrawDen of [0, 1) for each (month, day, hour).
\* The outcomes of the draws of one call are one of these sources: every draw
\* 0 ("low"), every draw the largest value below 1 ("high"), or a value that
\* varies with the slot ("mixed").
DrawDen == 100

DrawSources == {"low", "high", "mixed"}

draw_level(source, month, day, hour) ==
    CASE source = "low"  -> 0
      [] source = "high" -> DrawDen - 1
      [] OTHER           -> (37 * (month + day + hour)) % DrawDen

\* no draw is below the adjusted utilization
fired_levels_none(adjusted_utilization) == {}

\* The state of np.random's generator is known by the draws it will give
\* next: one of the sources.  seeded is its state after np.random.seed;
\* the draws of one call of calculate_smp_revenue (12 * 30 * 24 values) leave
\* it in another state.
seeded == "low"

after_draws(state) ==
    CASE state = "low"   -> "mixed"
      [] state = "mixed" -> "high"
      [] OTHER           -> "low"

\* the draw levels k for which  k / DrawDen < adjusted_utilization
fired_levels(adjusted_utilization) ==
    {k \in 0..(DrawDen - 1) : RLt(Q(k, DrawDen), adjusted_utilization)}

\* the number of days of the month on which the draw of this hour fired
fired_days(source, month, hour, levels) ==
    Cardinality({day \in 1..days_in_month : draw_level(source, month, day, hour) \in levels})

\* sum over the hours 1..hours of (fired days * hour factor in tenths)
RECURSIVE fired_weight(_, _, _, _)
fired_weight(source, month, hours, levels) ==
    IF hours = 0 THEN 0
    ELSE fired_weight(source, month, hours - 1, levels)
         + fired_days(source, month, hours, levels) * hourly_smp_factors[hours]

\* the revenue of one month: lines 91-103
smp_monthly_revenue(capacity_kw, location, annual_utilization, source, month) ==
    LET adjusted_utilization == RMul(annual_utilization, seasonal_demand_factors[month])
        levels == fired_levels(adjusted_utilization)
        weight == fired_weight(source, month, Len(hourly_smp_factors), levels)
        \* hourly_price * capacity_kw for a hour factor of 0.1
        tenth  == RMul(capacity_kw,
                       RMul(RMul(smp_base_price, Q(1, 10)), location_smp_factor(location)))
    IN  RMul(tenth, R(weight))

\* lines 109-113: the returned dict; hours is the divisor of average_price
smp_result(annual_utilization, monthly_revenues, annual_revenue, hours) ==
    IF RGt(annual_utilization, R(0)) /\ hours.n = 0
    THEN Raise("ZeroDivisionError")
    ELSE [raised           |-> "none",
          annual_revenue   |-> annual_revenue,
          monthly_revenues |-> monthly_revenues,
          average_price    |-> IF RGt(annual_utilization, R(0))
                               THEN RDiv(annual_revenue, hours)
                               ELSE R(0)]

\* line 107
smp_annual(capacity_kw, annual_utilization, monthly_revenues) ==
    smp_result(annual_utilization, monthly_revenues, RSum(monthly_revenues),
               RMul(RMul(capacity_kw, annual_utilization), R(operation_hours)))

calculate_smp_revenue(capacity_kw, location, annual_utilization, source) ==
    smp_annual(capacity_kw, annual_utilization,
               [month \in 1..Len(seasonal_demand_factors) |->
                   smp_monthly_revenue(capacity_kw, location, annual_utilization,
                                       source, month)])

base_costs ==
    [v2g_equipment  |-> Won(800000),
     infrastructure |-> Won(300000),
     installation   |-> Won(200000),
     certification  |-> Won(100000)]

additional_costs ==
    [DR  |-> [system_integration |-> Won(150000), monitoring |-> Won(100000)],
     SMP |-> [trading_system |-> Won(200000), forecast_system |-> Won(120000)]]

\* scale_factor_of with strict comparisons
scale_factor_of_strict(capacity_kw) ==
    IF RGt(capacity_kw, R(5000)) THEN Q(85, 100)
    ELSE IF RGt(capacity_kw, R(2000)) THEN Q(90, 100)
    ELSE IF RGt(capacity_kw, R(1000)) THEN Q(95, 100)
    ELSE Q(100, 100)

scale_factor_of(capacity_kw) ==
    IF RGe(capacity_kw, R(5000)) THEN Q(85, 100)
    ELSE IF RGe(capacity_kw, R(2000)) THEN Q(90, 100)
    ELSE IF RGe(capacity_kw, R(1000)) THEN Q(95, 100)
    ELSE Q(100, 100)

\* {**base_costs, **additional_costs[business_type]}
all_costs_of(business_type) ==
    [k \in (DOMAIN base_costs) \cup (DOMAIN additional_costs[business_type]) |->
        IF k \in DOMAIN additional_costs[business_type]
        THEN additional_costs[business_type][k]
        ELSE base_costs[k]]

\* cost_breakdown_of without the scale factor
cost_breakdown_of_unscaled(all_costs, scale_factor) == all_costs

\* line 155
cost_breakdown_of(all_costs, scale_factor) ==
    [k \in DOMAIN all_costs |-> RMul(all_costs[k], scale_factor)]

\* lines 157-164: the returned dict
investment_result(capacity_kw, business_type, scale_factor, total_base_cost, total_additional_cost) ==
    IF capacity_kw.n = 0
    THEN Raise("ZeroDivisionError")     \* line 163 divides by capacity_kw
    ELSE [raised           |-> "none",
          equipment_cost   |-> total_base_cost,
          additional_cost  |-> total_additional_cost,
          total_investment |-> RAdd(total_base_cost, total_additional_cost),
          cost_breakdown   |-> cost_breakdown_of(all_costs_of(business_type),
                                                 scale_factor),
          scale_factor     |-> scale_factor,
          unit_cost_per_kw |-> RDiv(RAdd(total_base_cost, total_additional_cost),
                                    capacity_kw)]

\* lines 151-152
investment_totals(capacity_kw, business_type, scale_factor) ==
    investment_result(capacity_kw, business_type, scale_factor,
        RMul(RMul(SumValues(base_costs), capacity_kw), scale_factor),
        RMul(RMul(SumValues(additional_costs[business_type]), capacity_kw),
             scale_factor))

calculate_investment_costs(capacity_kw, business_type) ==
    investment_totals(capacity_kw, business_type, scale_factor_of(capacity_kw))

\* payback_period_of with the guard on the wrong variable
payback_period_of_guard_investment(investment_cost, annual_net_income) ==
    IF RGt(investment_cost, R(0)) THEN RDiv(investment_cost, annual_net_income) ELSE Inf

\* line 176
payback_period_of(investment_cost, annual_net_income) ==
    IF RGt(annual_net_income, R(0)) THEN RDiv(investment_cost, annual_net_income) ELSE Inf

irr_of_fraction(investment_cost, annual_net_income) ==
    IF RGt(investment_cost, R(0)) THEN RDiv(annual_net_income, investment_cost) ELSE R(0)

\* line 185
irr_of(investment_cost, annual_net_income) ==
    IF RGt(investment_cost, R(0))
    THEN RMul(RDiv(annual_net_income, investment_cost), R(100))
    ELSE R(0)

\* npv (lines 178-182) is a sum of annual_net_income / 1.05 ** year: it divides
\* by no value that can be 0 and no other line reads it; its exact value
\* (denominator 21 ** operation_years) is beyond TLC's integers and is left out.
roi_result(investment_cost, operation_years, annual_net_income) ==
    IF investment_cost.n = 0
    THEN Raise("ZeroDivisionError")     \* line 173 divides by investment_cost
    ELSE [raised |-> "none",
          roi    |-> RMul(RDiv(RSub(RMul(annual_net_income, R(operation_years)),
                                    investment_cost),
                               investment_cost),
                          R(100)),
          payback_period    |-> payback_period_of(investment_cost, annual_net_income),
          irr               |-> irr_of(investment_cost, annual_net_income),
          annual_net_income |-> annual_net_income]

\* lines 169-170: annual_opex and annual_net_income
calculate_roi_metrics(annual_revenue, investment_cost, operation_years) ==
    roi_result(investment_cost, operation_years,
               RSub(annual_revenue, RMul(investment_cost, Q(5, 100))))

default_operation_years == 10

\* One business line of generate_comparison_report: revenue, then costs, then
\* roi metrics; an exception raised by a step ends the call.
line_result(revenue, costs, roi_metrics) ==
    IF roi_metrics.raised # "none" THEN Raise(roi_metrics.raised)
    ELSE [raised |-> "none", revenue |-> revenue, costs |-> costs,
          roi_metrics |-> roi_metrics]

line_roi(revenue, costs) ==
    IF costs.raised # "none" THEN Raise(costs.raised)
    ELSE line_result(revenue, costs,
                     calculate_roi_metrics(revenue.annual_revenue,
                                           costs.total_investment,
                                           default_operation_years))

report_line(revenue, capacity_kw, business_type) ==
    IF revenue.raised # "none" THEN Raise(revenue.raised)
    ELSE line_roi(revenue, calculate_investment_costs(capacity_kw, business_type))

\* lines 207-218
report_result(dr, smp) ==
    IF smp.raised # "none" THEN Raise(smp.raised)
    ELSE [raised |-> "none", DR |-> dr, SMP |-> smp]

\* lines 203-205, reached when the DR line raised nothing
report_smp(dr, capacity_kw, location, utilization_smp, source) ==
    IF dr.raised # "none" THEN Raise(dr.raised)
    ELSE report_result(dr,
             report_line(calculate_smp_revenue(capacity_kw, location,
                                               utilization_smp, source),
                         capacity_kw, "SMP"))

generate_comparison_report(capacity_kw, location, utilization_dr, utilization_smp, source) ==
    report_smp(report_line(calculate_dr_revenue(capacity_kw, location, utilization_dr),
                           capacity_kw, "DR"),
               capacity_kw, location, utilization_smp, source)

---------------------------------------------------------------------------
(* V2GIntegratedAnalyzer                                                   *)

confidence_of(weighted_gap) ==
    IF RGt(weighted_gap, R(15)) THEN "very_high"
    ELSE IF RGt(weighted_gap, R(10)) THEN "high"
    ELSE IF RGt(weighted_gap, R(5)) THEN "moderate"
    ELSE "low"

\* weighted_score with the two weights exchanged
weighted_score_exchanged(roi, total_score) ==
    RAdd(RMul(roi, Q(4, 10)), RMul(total_score, Q(6, 10)))

\* lines 97-98
weighted_score(roi, total_score) ==
    RAdd(RMul(roi, Q(6, 10)), RMul(total_score, Q(4, 10)))

\* line 100 with equal weighted scores going to DR
final_recommendation_tie_dr(dr_weighted_score, smp_weighted_score) ==
    IF RGe(dr_weighted_score, smp_weighted_score) THEN "DR" ELSE "SMP"

\* line 100
final_recommendation_of(dr_weighted_score, smp_weighted_score) ==
    IF RGt(dr_weighted_score, smp_weighted_score) THEN "DR" ELSE "SMP"

\* lines 116-133: the returned dict
comparison_result(dr_roi, smp_roi, score_result, dr_weighted_score, smp_weighted_score) ==
    [raised                 |-> "none",
     revenue_recommendation |-> IF RGt(dr_roi, smp_roi) THEN "DR" ELSE "SMP",
     score_recommendation   |-> score_result.recommendation,
     final_recommendation   |->
         final_recommendation_of(dr_weighted_score, smp_weighted_score),
     recommendations_match  |->
         ((IF RGt(dr_roi, smp_roi) THEN "DR" ELSE "SMP") = score_result.recommendation),
     confidence |-> confidence_of(RAbs(RSub(dr_weighted_score, smp_weighted_score))),
     metrics |-> [dr_roi       |-> dr_roi,
                  smp_roi      |-> smp_roi,
                  dr_score     |-> score_result.total_scores.dr,
                  smp_score    |-> score_result.total_scores.smp,
                  dr_weighted  |-> dr_weighted_score,
                  smp_weighted |-> smp_weighted_score,
                  roi_gap      |-> RAbs(RSub(dr_roi, smp_roi)),
                  score_gap    |-> score_result.score_gap,
                  weighted_gap |-> RAbs(RSub(dr_weighted_score, smp_weighted_score))]]

\* lines 86-98
comparison_weighted(dr_roi, smp_roi, score_result) ==
    comparison_result(dr_roi, smp_roi, score_result,
                      weighted_score(dr_roi, score_result.total_scores.dr),
                      weighted_score(smp_roi, score_result.total_scores.smp))

\* basic_inputs and score_inputs, the two further parameters of the source, are
\* not read by the function.
create_integrated_comparison(revenue_analysis, score_result) ==
    comparison_weighted(revenue_analysis.DR.roi_metrics.roi,
                        revenue_analysis.SMP.roi_metrics.roi,
                        score_result)

---------------------------------------------------------------------------
(* AdvancedV2GAnalyzer.risk_analysis (advances_analysis.py)                *)

\* line 92
num_simulations == 1000

\* np.random.normal(loc, 0.1): loc + z / 10 with z a whole number of standard
\* deviations within MaxSigma on either side.  The outcomes of the draws of
\* one call are one of these sources: every draw MaxSigma below its mean
\* ("low"), every draw MaxSigma above ("high"), every draw on its mean
\* ("mean"), or a value that varies with the trial and the draw ("mixed").
MaxSigma == 5

NormalSources == {"low", "high", "mean", "mixed"}

\* the generator is not put back to the seed before a second run: that run's
\* draws are other values than the first run's (here 2 * MaxSigma below the
\* mean, outside the values of every source)
normal_level_unseeded(source, trial, draw) ==
    IF "first" \in DOMAIN args THEN 0 - 2 * MaxSigma
    ELSE CASE source = "low"  -> 0 - MaxSigma
           [] source = "high" -> MaxSigma
           [] source = "mean" -> 0
           [] OTHER           -> ((7 * trial + 3 * draw) % (2 * MaxSigma + 1)) - MaxSigma

\* draw 0 is capacity_variation, 1 utilization_dr, 2 utilization_smp
normal_level(source, trial, draw) ==
    CASE source = "low"  -> 0 - MaxSigma
      [] source = "high" -> MaxSigma
      [] source = "mean" -> 0
      [] OTHER           -> ((7 * trial + 3 * draw) % (2 * MaxSigma + 1)) - MaxSigma

normal(loc, source, trial, draw) == RAdd(loc, Q(normal_level(source, trial, draw), 10))

RMin(a, b) == IF RLt(b, a) THEN b ELSE a

RMax(a, b) == IF RGt(b, a) THEN b ELSE a

\* lines 99 and 100: max(0.1, min(upper, draw))
clamped_utilization(upper, draw) == RMax(Q(1, 10), RMin(upper, draw))

\* lines 109-110: the two lists after the trial, with the values of the trial's
\* local variables; an exception raised by the report ends the call.
trial_result(rois, analysis, capacity_variation, utilization_dr, utilization_smp, adjusted_capacity) ==
    IF analysis.raised # "none" THEN Raise(analysis.raised)
    ELSE [raised             |-> "none",
          dr_rois            |-> Append(rois.dr_rois, analysis.DR.roi_metrics.roi),
          smp_rois           |-> Append(rois.smp_rois, analysis.SMP.roi_metrics.roi),
          capacity_variation |-> capacity_variation,
          utilization_dr     |-> utilization_dr,
          utilization_smp    |-> utilization_smp,
          adjusted_capacity  |-> adjusted_capacity]

\* lines 118 and 125: len([x for x in rois if x > 0]) / len(rois)
prob_positive(rois) ==
    RDiv(R(Cardinality({i \in 1..Len(rois) : RGt(rois[i], R(0))})), R(Len(rois)))

\* lines 112-134; mean_roi, std_roi, var_95 and var_99 are left out
risk_metrics(scenario, rois) ==
    [raised           |-> "none",
     dr_risk_metrics  |-> [prob_positive |-> prob_positive(rois.dr_rois)],
     smp_risk_metrics |-> [prob_positive |-> prob_positive(rois.smp_rois)],
     base_scenario    |-> [capacity        |-> scenario.capacity_kw,
                           location        |-> scenario.location,
                           dr_utilization  |-> scenario.utilization_dr,
                           smp_utilization |-> scenario.utilization_smp]]

---------------------------------------------------------------------------
(* The web server (run_server_jupyter.py) and the web wrappers.            *)

\* Python's None
None == [py_none |-> TRUE]

\* d.get(key, default) of a dict d
get(d, key, default) == IF key \in DOMAIN d THEN d[key] ELSE default

\* lines 368-369 with the two weights exchanged
final_weighted_exchanged(roi, score) ==
    RAdd(RMul(roi, Q(4, 10)), RMul(score, Q(6, 10)))

\* lines 368-369
final_weighted(roi, score) ==
    RAdd(RMul(roi, Q(6, 10)), RMul(score, Q(4, 10)))

\* lines 396-405: the fixed answer of the except branch
fallback_recommendation ==
    [raised |-> "none", recommendation |-> "DR", confidence |-> "low",
     dr_weighted_score |-> R(0), smp_weighted_score |-> R(0), score_gap |-> R(0),
     analysis_summary |-> <<>>]

\* lines 371-394
final_recommendation_result(dr_roi, smp_roi, dr_score, smp_score, dr_weighted, smp_weighted) ==
    [raised |-> "none",
     recommendation |-> IF RGt(dr_weighted, smp_weighted) THEN "DR" ELSE "SMP",
     confidence |->
         IF RGt(RAbs(RSub(dr_weighted, smp_weighted)), R(15)) THEN "very_high"
         ELSE IF RGt(RAbs(RSub(dr_weighted, smp_weighted)), R(10)) THEN "high"
         ELSE IF RGt(RAbs(RSub(dr_weighted, smp_weighted)), R(5)) THEN "moderate"
         ELSE "low",
     dr_weighted_score  |-> Round1(dr_weighted),
     smp_weighted_score |-> Round1(smp_weighted),
     score_gap          |-> Round1(RAbs(RSub(dr_weighted, smp_weighted))),
     analysis_summary   |-> [dr_roi |-> Round1(dr_roi), smp_roi |-> Round1(smp_roi),
                             dr_score |-> Round1(dr_score),
                             smp_score |-> Round1(smp_score)]]

\* lines 368-369
final_recommendation_weighted(dr_roi, smp_roi, dr_score, smp_score) ==
    final_recommendation_result(dr_roi, smp_roi, dr_score, smp_score,
                                final_weighted(dr_roi, dr_score),
                                final_weighted(smp_roi, smp_score))

\* lines 356-405.  A key that is missing reads as 0; a value that is no dict
\* (None) makes .get raise AttributeError, which the except branch answers.
generate_final_recommendation(basic_result, score_result) ==
    IF basic_result = None \/ score_result = None THEN fallback_recommendation
    ELSE final_recommendation_weighted(
             get(get(get(basic_result, "DR", <<>>), "roi_metrics", <<>>), "roi", R(0)),
             get(get(get(basic_result, "SMP", <<>>), "roi_metrics", <<>>), "roi", R(0)),
             get(get(score_result, "total_scores", <<>>), "dr", R(0)),
             get(get(score_result, "total_scores", <<>>), "smp", R(0)))

\* ---- v2g_integrated_analyzer.py: run_integrated_analysis and its wrapper ----

\* the keys run_integrated_analysis reads with basic_inputs[...] (lines 27-30)
BasicKeys == {"capacity", "location", "utilization_dr", "utilization_smp"}

\* and with score_inputs[...] (lines 35-50)
ScoreKeys ==
    {"capacity_kw", "location", "budget_billion", "risk_preference",
     "regular_pattern_ratio", "dr_dispatch_time_ratio", "charging_spots",
     "power_capacity_mva", "total_ports", "smart_ocpp_ports", "v2g_ports",
     "brand_type", "soh_under_70_ratio", "soh_70_85_ratio", "soh_85_95_ratio",
     "soh_over_95_ratio"}

\* lines 53-78: the returned dict; the charts and the report texts are left out
integrated_result(revenue_analysis, score_result) ==
    [raised                |-> "none",
     revenue_analysis      |-> revenue_analysis,
     score_analysis        |-> score_result,
     integrated_comparison |-> create_integrated_comparison(revenue_analysis,
                                                            score_result)]

\* lines 26-31: run_consultation is generate_comparison_report followed by the
\* text report and the chart
run_consultation(basic_inputs, source) ==
    IF ~(BasicKeys \subseteq DOMAIN basic_inputs) THEN Raise("KeyError")
    ELSE generate_comparison_report(basic_inputs.capacity, basic_inputs.location,
                                    basic_inputs.utilization_dr,
                                    basic_inputs.utilization_smp, source)

\* lines 22-78, from what run_consultation returned or raised
run_integrated_analysis(revenue_analysis, score_inputs) ==
    IF revenue_analysis.raised # "none" THEN Raise(revenue_analysis.raised)
    ELSE IF ~(ScoreKeys \subseteq DOMAIN score_inputs) THEN Raise("KeyError")
    ELSE integrated_result(revenue_analysis, calculate_comprehensive_score(score_inputs))

\* run_integrated_analysis_from_web without its except branch
from_web_uncaught(analysis) ==
    IF analysis.raised # "none" THEN analysis
    ELSE [raised |-> "none", success |-> TRUE, result |-> analysis]

\* run_integrated_analysis_from_web, lines 448-466, from what
\* run_integrated_analysis returned or raised: try ... except Exception as e;
\* the error text is the exception's
from_web(analysis) ==
    IF analysis.raised # "none"
    THEN [raised |-> "none", success |-> FALSE, error |-> analysis.raised]
    ELSE [raised |-> "none", success |-> TRUE, result |-> analysis]

\* ---- run_server_jupyter.py: the basic_analysis route ----

\* A value of the request's JSON body: a number, or a text [text |-> "..."].
\* float(v) and int(v) return [raised |-> "none", value |-> ...] or raise
\* ValueError on a text that is no numeral.
Numerals == ("0" :> 0) @@ ("50" :> 50) @@ ("1000" :> 1000)

float_of(v) ==
    IF "text" \in DOMAIN v
    THEN IF v.text \in DOMAIN Numerals
         THEN [raised |-> "none", value |-> R(Numerals[v.text])]
         ELSE Raise("ValueError")
    ELSE [raised |-> "none", value |-> v]

\* int of a number drops its fraction (towards 0)
int_of(v) ==
    IF "text" \in DOMAIN v
    THEN IF v.text \in DOMAIN Numerals
         THEN [raised |-> "none", value |-> Numerals[v.text]]
         ELSE Raise("ValueError")
    ELSE [raised |-> "none",
          value  |-> IF v.n >= 0 THEN v.n \div v.d ELSE 0 - ((0 - v.n) \div v.d)]

\* the exception of the first conversion that raised, or "none"
conversion_error(converted) ==
    IF \E key \in DOMAIN converted : converted[key].raised # "none"
    THEN "ValueError" ELSE "none"

\* lines 80-84: the conversions of the basic step
basic_conversions(data) ==
    [capacity_kw            |-> float_of(get(data, "capacity_kw", R(1000))),
     dr_dispatch_time_ratio |-> float_of(get(data, "dr_dispatch_time_ratio", Q(6, 10))),
     regular_pattern_ratio  |-> float_of(get(data, "regular_pattern_ratio", Q(7, 10)))]

\* lines 80-88: the arguments of run_consultation
basic_inputs_of(data, converted) ==
    IF conversion_error(converted) # "none" THEN Raise(conversion_error(converted))
    ELSE [raised          |-> "none",
          capacity        |-> converted.capacity_kw.value,
          location        |-> get(data, "location", "sudogwon"),
          utilization_dr  |->
              RMin(Q(95, 100),
                   RAdd(RMul(converted.dr_dispatch_time_ratio.value,
                             converted.regular_pattern_ratio.value), Q(1, 10))),
          utilization_smp |->
              RMin(Q(85, 100),
                   RAdd(RMul(RSub(R(1), converted.dr_dispatch_time_ratio.value),
                             Q(8, 10)), Q(2, 10)))]

\* lines 80-96: run_consultation on them
basic_step(basic_inputs, source) ==
    IF basic_inputs.raised # "none" THEN Raise(basic_inputs.raised)
    ELSE generate_comparison_report(basic_inputs.capacity, basic_inputs.location,
                                    basic_inputs.utilization_dr,
                                    basic_inputs.utilization_smp, source)

\* lines 111-128: the conversions of the scoring step
score_conversions(data) ==
    [budget_billion         |-> float_of(get(data, "budget_billion", R(15))),
     regular_pattern_ratio  |-> float_of(get(data, "regular_pattern_ratio", Q(7, 10))),
     dr_dispatch_time_ratio |-> float_of(get(data, "dr_dispatch_time_ratio", Q(6, 10))),
     charging_spots         |-> int_of(get(data, "charging_spots", R(50))),
     power_capacity_mva     |-> float_of(get(data, "power_capacity_mva", Q(3, 10))),
     total_ports            |-> int_of(get(data, "total_ports", R(100))),
     smart_ocpp_ports       |-> int_of(get(data, "smart_ocpp_ports", R(60))),
     v2g_ports              |-> int_of(get(data, "v2g_ports", R(30))),
     soh_under_70_ratio     |-> float_of(get(data, "soh_under_70_ratio", Q(1, 10))),
     soh_70_85_ratio        |-> float_of(get(data, "soh_70_85_ratio", Q(3, 10))),
     soh_85_95_ratio        |-> float_of(get(data, "soh_85_95_ratio", Q(5, 10))),
     soh_over_95_ratio      |-> float_of(get(data, "soh_over_95_ratio", Q(1, 10)))]

\* lines 109-130: score_inputs and run_score_analysis_from_web, whose result
\* is the one of calculate_comprehensive_score
score_step(data, capacity, converted) ==
    IF conversion_error(converted) # "none" THEN Raise(conversion_error(converted))
    ELSE calculate_comprehensive_score(
             [key \in DOMAIN converted |-> converted[key].value]
             @@ [capacity_kw     |-> capacity,
                 location        |-> get(data, "location", "sudogwon"),
                 risk_preference |-> get(data, "risk_preference", "neutral"),
                 brand_type      |-> get(data, "brand_type", "others")])

\* lines 101-160: the response.  An exception of the basic step reaches the
\* outer except (status 500); one of the scoring step is swallowed by the
\* inner except and the response stays the one of line 101.
basic_response(basic_result, score_result) ==
    IF basic_result.raised # "none"
    THEN [raised |-> "none", success |-> FALSE, error |-> basic_result.raised,
          status |-> 500]
    ELSE IF score_result.raised # "none"
    THEN [raised |-> "none", success |-> TRUE, status |-> 200,
          basic_result |-> basic_result]
    ELSE [raised |-> "none", success |-> TRUE, status |-> 200,
          basic_result |-> basic_result,
          score_result |-> score_result,
          final_recommendation |->
              generate_final_recommendation(basic_result, score_result)]

\* basic_analysis from the result of its basic step: the scoring step is
\* reached when the basic step raised nothing
basic_analysis(data, basic_result, capacity) ==
    IF basic_result.raised # "none" THEN basic_response(basic_result, basic_result)
    ELSE basic_response(basic_result,
                        score_step(data, capacity.value, score_conversions(data)))

\* ---- advances_analysis.py: the web entry of the comprehensive analysis ----

\* what run_market_benchmarking_analysis returns: the HTML report on the four
\* market scenarios and the default user scenario; its text is not modelled
market_benchmarking_report == [report |-> "market_benchmarking"]

\* lines 693-701: with a non-empty list the function binds analyzer and
\* scenarios and reaches its end without a return statement
run_comprehensive_analysis(web_scenarios) ==
    IF web_scenarios # <<>> THEN None ELSE market_benchmarking_report

\* lines 704-716, from the values float(...) gave
BusinessScenario(name, capacity, location, budget, target_roi, risk_tolerance, dr_utilization, smp_utilization) ==
    [name            |-> name,
     capacity_kw     |-> capacity.value,
     location        |-> location,
     investment_budget |-> budget.value,
     target_roi      |-> target_roi.value,
     risk_tolerance  |-> risk_tolerance,
     utilization_dr  |-> dr_utilization.value,
     utilization_smp |-> smp_utilization.value]

\* lines 704-716: float(...) of a text that is no numeral raises ValueError
create_scenario_from_web_input(name, capacity, location, budget, target_roi, risk_tolerance, dr_utilization, smp_utilization) ==
    IF \E v \in {capacity, budget, target_roi, dr_utilization, smp_utilization} :
           float_of(v).raised # "none"
    THEN Raise("ValueError")
    ELSE BusinessScenario(name, float_of(capacity), location, float_of(budget),
                          float_of(target_roi), risk_tolerance,
                          float_of(dr_utilization), float_of(smp_utilization))

\* lines 723-733: one entry of web_scenarios_data
scenario_of_web_data(data) ==
    create_scenario_from_web_input(
        get(data, "name", "web_scenario"),
        get(data, "capacity", R(1000)),
        get(data, "location", "sudogwon"),
        get(data, "budget", R(1000000000)),
        get(data, "target_roi", R(15)),
        get(data, "risk_tolerance", "medium"),
        get(data, "dr_utilization", Q(7, 10)),
        get(data, "smp_utilization", Q(6, 10)))

\* lines 718-736: scenarios is the list of the converted entries; returned is
\* the value of the return statement
run_web_based_analysis(web_scenarios_data) ==
    IF \E i \in 1..Len(web_scenarios_data) :
           "raised" \in DOMAIN scenario_of_web_data(web_scenarios_data[i])
    THEN Raise("ValueError")
    ELSE [raised    |-> "none",
          scenarios |-> [i \in 1..Len(web_scenarios_data) |->
                            scenario_of_web_data(web_scenarios_data[i])],
          returned  |-> run_comprehensive_analysis(
                            [i \in 1..Len(web_scenarios_data) |->
                                scenario_of_web_data(web_scenarios_data[i])])]

---------------------------------------------------------------------------
(* The inputs the calls are made with.                                     *)

\* Locations: a DR-preferred region, an alias of an SMP-preferred region, and
\* a string in neither list.
ScoreLocations == {"sudogwon", "yeongnam", "other"}

\* Capacities on and just past the band boundaries of calculate_scale_score.
ScoreCapacities == {R(3000), R(8000), R(15000), R(15001)}

RiskPreferences == {"stable", "neutral", "high_risk"}

DispatchRatios == {Q(24, 100), Q(25, 100), Q(51, 100)}

\* <<charging_spots, power_capacity_mva>>: the top band, and a pair whose two
\* values fall in different bands
InfraInputs == {<<201, Q(11, 10)>>, <<201, Q(2, 10)>>}

\* <<total_ports, smart_ocpp_ports, v2g_ports>>
ChargerInputs == {<<0, 0, 0>>, <<10, 7, 1>>}

BrandTypes == {"b2g_large", "others"}

\* <<soh_under_70, soh_70_85, soh_85_95, soh_over_95>>
SohInputs == {<<R(0), R(0), R(0), R(1)>>, <<Q(1, 10), Q(1, 10), Q(6, 10), Q(2, 10)>>}

Budgets == {R(9), R(150), R(500)}

\* V2GScoreInput(...): regular_pattern_ratio is read by no sub-scorer
ScoreInput(c, l, b, rp, dt, inf, ch, bt, soh) ==
    [capacity_kw |-> c, location |-> l, budget_billion |-> b,
     risk_preference |-> rp, regular_pattern_ratio |-> Q(7, 10),
     dr_dispatch_time_ratio |-> dt,
     charging_spots |-> inf[1], power_capacity_mva |-> inf[2],
     total_ports |-> ch[1], smart_ocpp_ports |-> ch[2], v2g_ports |-> ch[3],
     brand_type |-> bt,
     soh_under_70_ratio |-> soh[1], soh_70_85_ratio |-> soh[2],
     soh_85_95_ratio |-> soh[3], soh_over_95_ratio |-> soh[4]]

\* The score inputs the combiner is run on: every scale band, risk tag and
\* budget band with the other categories even, the tie of the totals included.
ComparisonScoreInputs ==
    {ScoreInput(c, "other", b, rp, Q(25, 100), <<201, Q(2, 10)>>, <<0, 0, 0>>,
                "others", <<R(0), R(0), R(0), R(1)>>) :
        c \in ScoreCapacities, b \in Budgets, rp \in RiskPreferences}

\* ROI percentages: the multiples of 25/3, so that the weighted gap of two of
\* them (0.6 * their difference) falls on and between the thresholds 5, 10, 15.
MaxRoiK == 3

RoiValues == {Q(25 * k, 3) : k \in (0 - MaxRoiK)..MaxRoiK}

RevenueAnalyses ==
    {[DR  |-> [roi_metrics |-> [roi |-> d]],
      SMP |-> [roi_metrics |-> [roi |-> s]]] : d \in RoiValues, s \in RoiValues}

\* kW: negative, zero, and on or just below every threshold of the scale discount
BusinessCapacities ==
    {R(0 - 1000), R(0), R(1), R(999), R(1000), R(1999), R(2000), R(4999), R(5000)}

BusinessLocations ==
    {"sudogwon", "chungcheong", "yeongnam", "honam", "gangwon", "jeju", "other"}

Utilizations == {R(0), Q(6, 10), Q(7, 10), R(1)}

BusinessTypes == {"DR", "SMP"}

\* the calls that sample the hourly draws are made on fewer inputs
SmpCapacities == {R(0 - 1000), R(0), R(1000), R(5000)}

SmpLocations == {"sudogwon", "jeju", "other"}

ReportUtilizations == {R(0), Q(7, 10)}

\* utilization_smp of the report: also the default 0.6
ReportSmpUtilizations == {R(0), Q(6, 10), Q(7, 10)}

\* calculate_roi_metrics: revenues and investments that make the net income
\* negative, zero and positive, and the investment negative, zero and positive
AnnualRevenues ==
    {Won(0 - 50000), Won(0), Won(50000), Won(100000), Won(150000), Won(1000000),
     Won(3000000)}

InvestmentCosts == {Won(0 - 1000000), Won(0), Won(1000000), Won(20000000)}

MaxOperationYears == 10

\* The inputs of the calls of the single sub-scorers.
AllLocations ==
    dr_preferred_regions \cup smp_preferred_regions \cup {"yeongnam", "honam", "other"}

\* on, just below and just above the band boundaries, and far outside them
ScaleCapacities ==
    {R(0 - 1), R(0), R(2999), R(3000), Q(30001, 10), R(3001), R(7999), R(8000),
     R(8001), R(14999), R(15000), R(15001), R(100000)}

AllRiskPreferences == {"stable", "neutral", "high_risk", "unknown"}

RegularPatternRatios == {R(0), Q(5, 10), R(1)}

AllDispatchRatios == {R(0), Q(24, 100), Q(25, 100), Q(5, 10), Q(51, 100), R(1)}

ChargingSpots == {0, 40, 41, 80, 81, 120, 121, 200, 201}

PowerCapacities ==
    {R(0), Q(2, 10), Q(21, 100), Q(4, 10), Q(41, 100), Q(6, 10), Q(61, 100),
     Q(10, 10), Q(11, 10)}

\* port counts 0..MaxPorts: the ratios k/10 fall on every threshold of
\* get_ratio_score
MaxPorts == 10

AllBrandTypes == {"b2g_large", "others", "unknown"}

\* each SOH ratio is k/4 for k in 0..MaxSohK; the four need not sum to 1
MaxSohK == 3

SohRatios == {Q(k, 4) : k \in 0..MaxSohK}

AllBudgets ==
    {R(0 - 1), R(0), R(9), R(10), R(29), R(30), R(79), R(80), R(149), R(150),
     R(299), R(300), R(499), R(500), R(1000)}

\* risk_analysis: a scenario of no capacity and one of 1000 kW; utilizations
\* at both ends of [0, 1] and the defaults of BusinessScenario (0.7 and 0.6)
RiskCapacities == {R(0), R(1000)}

RiskLocations == {"sudogwon"}

RiskUtilizations == {R(0), Q(6, 10), Q(7, 10), R(1)}

\* The calls that run all trials: utilization_dr, utilization_smp and the two
\* sources of the draws.  The draws fall below both clamping ranges in the
\* first, above both in the last, and below, inside and above in the second.
FullRuns ==
    {<<R(0), R(0), "low", "low">>,
     <<Q(7, 10), Q(6, 10), "mixed", "mixed">>,
     <<R(1), R(1), "high", "high">>}

---------------------------------------------------------------------------
(* The calls.                                                              *)

Init ==
    /\ op = "none"
    /\ args = <<>>
    /\ result = <<>>
    /\ generator = seeded

\* A call is made when no call is in progress; its arguments and its result are
\* request-scoped and dropped by Return.
Idle == op = "none"

CallComprehensiveScore ==
    /\ Idle
    /\ \E c \in ScoreCapacities, l \in ScoreLocations, b \in Budgets,
          rp \in RiskPreferences, dt \in DispatchRatios, inf \in InfraInputs,
          ch \in ChargerInputs, bt \in BrandTypes, soh \in SohInputs :
        LET input_data == ScoreInput(c, l, b, rp, dt, inf, ch, bt, soh)
        IN  /\ op' = "calculate_comprehensive_score"
            /\ args' = [input_data |-> input_data]
            /\ result' = calculate_comprehensive_score(input_data)
    /\ UNCHANGED generator

CallRegionScore ==
    /\ Idle
    /\ \E location \in AllLocations :
        /\ op' = "calculate_region_score"
        /\ args' = [location |-> location]
        /\ result' = calculate_region_score(location)
    /\ UNCHANGED generator

CallScaleScore ==
    /\ Idle
    /\ \E capacity_kw \in ScaleCapacities :
        /\ op' = "calculate_scale_score"
        /\ args' = [capacity_kw |-> capacity_kw]
        /\ result' = calculate_scale_score(capacity_kw)
    /\ UNCHANGED generator

CallRiskScore ==
    /\ Idle
    /\ \E risk_preference \in AllRiskPreferences :
        /\ op' = "calculate_risk_score"
        /\ args' = [risk_preference |-> risk_preference]
        /\ result' = calculate_risk_score(risk_preference)
    /\ UNCHANGED generator

CallParkingPatternScore ==
    /\ Idle
    /\ \E regular_pattern_ratio \in RegularPatternRatios,
          dr_dispatch_time_ratio \in AllDispatchRatios :
        /\ op' = "calculate_parking_pattern_score"
        /\ args' = [regular_pattern_ratio |-> regular_pattern_ratio,
                    dr_dispatch_time_ratio |-> dr_dispatch_time_ratio]
        /\ result' = calculate_parking_pattern_score(regular_pattern_ratio,
                                                     dr_dispatch_time_ratio)
    /\ UNCHANGED generator

CallInfrastructureScore ==
    /\ Idle
    /\ \E charging_spots \in ChargingSpots, power_capacity_mva \in PowerCapacities :
        /\ op' = "calculate_infrastructure_score"
        /\ args' = [charging_spots |-> charging_spots,
                    power_capacity_mva |-> power_capacity_mva]
        /\ result' = calculate_infrastructure_score(charging_spots, power_capacity_mva)
    /\ UNCHANGED generator

CallChargerRatioScore ==
    /\ Idle
    /\ \E total_ports \in 0..MaxPorts, smart_ocpp_ports \in 0..MaxPorts,
          v2g_ports \in 0..MaxPorts :
        /\ op' = "calculate_charger_ratio_score"
        /\ args' = [total_ports |-> total_ports, smart_ocpp_ports |-> smart_ocpp_ports,
                    v2g_ports |-> v2g_ports]
        /\ result' = calculate_charger_ratio_score(total_ports, smart_ocpp_ports,
                                                   v2g_ports)
    /\ UNCHANGED generator

CallBrandScore ==
    /\ Idle
    /\ \E brand_type \in AllBrandTypes :
        /\ op' = "calculate_brand_score"
        /\ args' = [brand_type |-> brand_type]
        /\ result' = calculate_brand_score(brand_type)
    /\ UNCHANGED generator

CallBatteryDegradationScore ==
    /\ Idle
    /\ \E soh_under_70 \in SohRatios, soh_70_85 \in SohRatios,
          soh_85_95 \in SohRatios, soh_over_95 \in SohRatios :
        /\ op' = "calculate_battery_degradation_score"
        /\ args' = [soh_under_70 |-> soh_under_70, soh_70_85 |-> soh_70_85,
                    soh_85_95 |-> soh_85_95, soh_over_95 |-> soh_over_95]
        /\ result' = calculate_battery_degradation_score(soh_under_70, soh_70_85,
                                                         soh_85_95, soh_over_95)
    /\ UNCHANGED generator

CallBudgetScore ==
    /\ Idle
    /\ \E budget_billion \in AllBudgets :
        /\ op' = "calculate_budget_score"
        /\ args' = [budget_billion |-> budget_billion]
        /\ result' = calculate_budget_score(budget_billion)
    /\ UNCHANGED generator

\* run_integrated_analysis, lines 53-58: the score result is the one
\* calculate_comprehensive_score returned
IntegratedComparisonOf(revenue_analysis, score_result) ==
    /\ op' = "_create_integrated_comparison"
    /\ args' = [revenue_analysis |-> revenue_analysis, score_result |-> score_result]
    /\ result' = create_integrated_comparison(revenue_analysis, score_result)

CallCreateIntegratedComparison ==
    /\ Idle
    /\ \E revenue_analysis \in RevenueAnalyses, input_data \in ComparisonScoreInputs :
        IntegratedComparisonOf(revenue_analysis,
                               calculate_comprehensive_score(input_data))
    /\ UNCHANGED generator

CallDrRevenue ==
    /\ Idle
    /\ \E capacity_kw \in BusinessCapacities, location \in BusinessLocations,
          annual_utilization \in Utilizations :
        /\ op' = "calculate_dr_revenue"
        /\ args' = [capacity_kw |-> capacity_kw, location |-> location,
                    annual_utilization |-> annual_utilization]
        /\ result' = calculate_dr_revenue(capacity_kw, location, annual_utilization)
    /\ UNCHANGED generator

CallSmpRevenue ==
    /\ Idle
    /\ \E capacity_kw \in SmpCapacities, location \in SmpLocations,
          annual_utilization \in Utilizations, source \in DrawSources :
        /\ op' = "calculate_smp_revenue"
        /\ args' = [capacity_kw |-> capacity_kw, location |-> location,
                    annual_utilization |-> annual_utilization, source |-> source]
        /\ result' = calculate_smp_revenue(capacity_kw, location,
                                           annual_utilization, source)
    /\ UNCHANGED generator

\* The same call as served by the shared consultant of create_enhanced_app:
\* its draws are the ones np.random's generator gives next, and they move the
\* generator on, whether the call returns or raises after its loop.
ServeSmpRevenue ==
    /\ Idle
    /\ \E capacity_kw \in SmpCapacities, location \in SmpLocations,
          annual_utilization \in Utilizations :
        /\ op' = "calculate_smp_revenue"
        /\ args' = [capacity_kw |-> capacity_kw, location |-> location,
                    annual_utilization |-> annual_utilization, source |-> generator]
        /\ result' = calculate_smp_revenue(capacity_kw, location,
                                           annual_utilization, generator)
    /\ generator' = after_draws(generator)

CallInvestmentCosts ==
    /\ Idle
    /\ \E capacity_kw \in BusinessCapacities, business_type \in BusinessTypes :
        /\ op' = "calculate_investment_costs"
        /\ args' = [capacity_kw |-> capacity_kw, business_type |-> business_type]
        /\ result' = calculate_investment_costs(capacity_kw, business_type)
    /\ UNCHANGED generator

CallRoiMetrics ==
    /\ Idle
    /\ \E annual_revenue \in AnnualRevenues, investment_cost \in InvestmentCosts,
          operation_years \in 1..MaxOperationYears :
        /\ op' = "calculate_roi_metrics"
        /\ args' = [annual_revenue |-> annual_revenue,
                    investment_cost |-> investment_cost,
                    operation_years |-> operation_years]
        /\ result' = calculate_roi_metrics(annual_revenue, investment_cost,
                                           operation_years)
    /\ UNCHANGED generator

\* The report is made on the product of the few inputs above and, with the SMP
\* utilization held at 0 (no slot fires, whatever the draws), on every
\* capacity, location and DR utilization of the single calls.
CallComparisonReport ==
    /\ Idle
    /\ \E capacity_kw \in BusinessCapacities, location \in BusinessLocations,
          utilization_dr \in Utilizations,
          utilization_smp \in ReportSmpUtilizations, source \in DrawSources :
        /\ \/ /\ capacity_kw \in SmpCapacities
              /\ location \in SmpLocations
              /\ utilization_dr \in ReportUtilizations
           \/ /\ utilization_smp = R(0)
              /\ source = "low"
        /\ op' = "generate_comparison_report"
        /\ args' = [capacity_kw |-> capacity_kw, location |-> location,
                    utilization_dr |-> utilization_dr,
                    utilization_smp |-> utilization_smp, source |-> source]
        /\ result' = generate_comparison_report(capacity_kw, location, utilization_dr,
                                                utilization_smp, source)
    /\ UNCHANGED generator

\* generate_final_recommendation on the pairs the combiner is run on, and on
\* results that are an empty dict or None
CallFinalRecommendation ==
    /\ Idle
    /\ \E basic_result \in RevenueAnalyses \cup {<<>>, None},
          score_result \in {calculate_comprehensive_score(input_data) :
                               input_data \in ComparisonScoreInputs} \cup {None} :
        /\ op' = "generate_final_recommendation"
        /\ args' = [basic_result |-> basic_result, score_result |-> score_result]
        /\ result' = generate_final_recommendation(basic_result, score_result)
    /\ UNCHANGED generator

\* basic_inputs: the complete dict with capacity 0 and 1000, and the dict with
\* one key left out
WebBasicInputs ==
    {[capacity |-> c, location |-> "sudogwon", utilization_dr |-> Q(7, 10),
      utilization_smp |-> Q(6, 10)] : c \in {R(0), R(1000)}}
    \cup {[key \in BasicKeys \ {missing} |->
              [capacity |-> R(1000), location |-> "sudogwon",
               utilization_dr |-> Q(7, 10), utilization_smp |-> Q(6, 10)][key]] :
             missing \in BasicKeys}

\* score_inputs: complete, and with one key left out
WebScoreInputs ==
    {ScoreInput(c, "other", R(150), "neutral", Q(25, 100), <<201, Q(2, 10)>>,
                ch, "others", <<R(0), R(0), R(0), R(1)>>) :
        c \in {R(3000), R(8000)}, ch \in ChargerInputs}
    \cup {[key \in ScoreKeys \ {"v2g_ports"} |->
              ScoreInput(R(3000), "other", R(150), "neutral", Q(25, 100),
                         <<201, Q(2, 10)>>, <<10, 7, 1>>, "others",
                         <<R(0), R(0), R(0), R(1)>>)[key]]}

CallIntegratedAnalysisFromWeb ==
    /\ Idle
    /\ \E basic_inputs \in WebBasicInputs, score_inputs \in WebScoreInputs,
          source \in DrawSources :
        \E revenue_analysis \in {run_consultation(basic_inputs, source)} :
            /\ op' = "run_integrated_analysis_from_web"
            /\ args' = [basic_inputs |-> basic_inputs, score_inputs |-> score_inputs,
                        source |-> source]
            /\ result' = from_web(run_integrated_analysis(revenue_analysis,
                                                          score_inputs))
    /\ UNCHANGED generator

\* The JSON bodies of the requests: capacity_kw absent, a number or a text;
\* charging_spots absent, a number with a fraction or a text; every other key
\* absent.
WebCapacities == {R(0), R(1000), [text |-> "1000"], [text |-> "abc"]}

WebSpots == {Q(1205, 10), [text |-> "50"], [text |-> "many"]}

WebData ==
    {<<>>}
    \cup {[capacity_kw |-> c] : c \in WebCapacities}
    \cup {[charging_spots |-> s] : s \in WebSpots}
    \cup {[capacity_kw |-> c, charging_spots |-> s] : c \in WebCapacities, s \in WebSpots}

CallBasicAnalysis ==
    /\ Idle
    /\ \E data \in WebData, source \in DrawSources :
        \E converted \in {basic_conversions(data)} :
        \E basic_inputs \in {basic_inputs_of(data, converted)} :
        \E basic_result \in {basic_step(basic_inputs, source)} :
            /\ op' = "basic_analysis"
            /\ args' = [data |-> data, source |-> source]
            /\ result' = basic_analysis(data, basic_result, converted.capacity_kw)
    /\ UNCHANGED generator

\* The entries of web_scenarios_data: no key, some keys, every key, and a
\* capacity that is a numeral or no numeral.
WebScenarioData ==
    {<<>>,
     [capacity |-> R(2000), location |-> "jeju"],
     [capacity |-> [text |-> "1000"], dr_utilization |-> Q(6, 10)],
     [capacity |-> [text |-> "abc"]],
     [name |-> "plan", capacity |-> R(5000), location |-> "yeongnam",
      budget |-> R(2000000000), target_roi |-> R(18), risk_tolerance |-> "high",
      dr_utilization |-> R(1), smp_utilization |-> R(0)]}

MaxScenarios == 2

CallWebBasedAnalysis ==
    /\ Idle
    /\ \E n \in 0..MaxScenarios :
        \E web_scenarios_data \in [1..n -> WebScenarioData] :
            /\ op' = "run_web_based_analysis"
            /\ args' = [web_scenarios_data |-> web_scenarios_data]
            /\ result' = run_web_based_analysis(web_scenarios_data)
    /\ UNCHANGED generator

\* lines 92-94: the scenario, the sources of this call's draws, two empty lists
CallRiskAnalysis ==
    /\ Idle
    /\ \E capacity_kw \in RiskCapacities, location \in RiskLocations,
          utilization_dr \in RiskUtilizations, utilization_smp \in RiskUtilizations,
          normal_source \in NormalSources, source \in DrawSources :
        /\ \/ capacity_kw = R(0)
           \/ <<utilization_dr, utilization_smp, normal_source, source>> \in FullRuns
        /\ op' = "risk_analysis"
        /\ args' = [capacity_kw |-> capacity_kw, location |-> location,
                    utilization_dr |-> utilization_dr,
                    utilization_smp |-> utilization_smp,
                    normal_source |-> normal_source, source |-> source]
        /\ result' = [raised |-> "none", dr_rois |-> <<>>, smp_rois |-> <<>>]
    /\ UNCHANGED generator

\* the call is inside the loop of line 96 or has just left it
InLoop == op = "risk_analysis" /\ result.raised = "none" /\ "dr_rois" \in DOMAIN result

\* lines 96-110: one trial.  Lines 98-100 draw and clamp, line 102 adjusts the
\* capacity, lines 105-107 call the report, lines 109-110 append.
RiskTrial ==
    /\ InLoop
    /\ Len(result.dr_rois) < num_simulations
    /\ \E capacity_variation \in {normal(R(1), args.normal_source, Len(result.dr_rois) + 1, 0)},
          utilization_dr \in {clamped_utilization(Q(95, 100), normal(args.utilization_dr, args.normal_source, Len(result.dr_rois) + 1, 1))},
          utilization_smp \in {clamped_utilization(Q(85, 100), normal(args.utilization_smp, args.normal_source, Len(result.dr_rois) + 1, 2))} :
        \E adjusted_capacity \in {RMul(args.capacity_kw, capacity_variation)} :
            \E analysis \in {generate_comparison_report(adjusted_capacity, args.location, utilization_dr, utilization_smp, args.source)} :
                result' = trial_result(result, analysis, capacity_variation, utilization_dr, utilization_smp, adjusted_capacity)
    /\ UNCHANGED <<op, args>>
    /\ UNCHANGED generator

\* lines 112-134: the loop has ended
RiskMetrics ==
    /\ InLoop
    /\ Len(result.dr_rois) = num_simulations
    /\ result' = risk_metrics(args, result)
    /\ UNCHANGED <<op, args>>
    /\ UNCHANGED generator

\* The caller seeds the generator as before the first run and calls
\* risk_analysis again on the same scenario: the draws come from the same
\* sources.  args.first keeps what the first run returned or raised.  The
\* second run is made after the calls that raised and after the call whose
\* draws vary from trial to trial.
RepeatRiskAnalysis ==
    /\ op = "risk_analysis"
    /\ ~InLoop
    /\ "first" \notin DOMAIN args
    /\ args.capacity_kw = R(0) \/ args.normal_source = "mixed"
    /\ op' = op
    /\ args' = [capacity_kw |-> args.capacity_kw, location |-> args.location,
                utilization_dr |-> args.utilization_dr,
                utilization_smp |-> args.utilization_smp,
                normal_source |-> args.normal_source, source |-> args.source,
                first |-> result]
    /\ result' = [raised |-> "none", dr_rois |-> <<>>, smp_rois |-> <<>>]
    /\ UNCHANGED generator

Return ==
    /\ ~Idle
    /\ ~InLoop
    /\ op' = "none"
    /\ args' = <<>>
    /\ result' = <<>>
    /\ UNCHANGED generator

Next ==
    \/ CallRegionScore
    \/ CallScaleScore
    \/ CallRiskScore
    \/ CallParkingPatternScore
    \/ CallInfrastructureScore
    \/ CallChargerRatioScore
    \/ CallBrandScore
    \/ CallBatteryDegradationScore
    \/ CallBudgetScore
    \/ CallComprehensiveScore
    \/ CallCreateIntegratedComparison
    \/ CallDrRevenue
    \/ CallSmpRevenue
    \/ CallInvestmentCosts
    \/ CallRoiMetrics
    \/ CallComparisonReport
    \/ Return

Spec == Init /\ [][Next]_vars

\* The Monte Carlo loop of risk_analysis, one trial a step.
RiskNext ==
    \/ CallRiskAnalysis
    \/ RiskTrial
    \/ RiskMetrics
    \/ Return

RiskSpec == Init /\ [][RiskNext]_vars

\* risk_analysis run twice from the same seed.
SeededNext ==
    \/ CallRiskAnalysis
    \/ RiskTrial
    \/ RiskMetrics
    \/ RepeatRiskAnalysis
    \/ Return

SeededSpec == Init /\ [][SeededNext]_vars

\* A sequence of calls on the shared instances, the generator followed from
\* one call to the next.
SharedNext ==
    \/ CallDrRevenue
    \/ ServeSmpRevenue
    \/ Return

SharedSpec == Init /\ [][SharedNext]_vars

\* The calls of the web server and of the web wrappers.
WebNext ==
    \/ CallFinalRecommendation
    \/ CallIntegratedAnalysisFromWeb
    \/ CallBasicAnalysis
    \/ CallWebBasedAnalysis
    \/ Return

WebSpec == Init /\ [][WebNext]_vars

---------------------------------------------------------------------------
(* The properties.  Each is a predicate on the state after a call: op is   *)
(* the function called, args its arguments, result what it returned.       *)

\* One side ("dr" or "smp") of the nine entries of a detailed_scores, summed.
SumOfNine(detailed_scores, side) ==
    RSum(<<detailed_scores.region[side], detailed_scores.scale[side],
           detailed_scores.risk[side], detailed_scores.parking[side],
           detailed_scores.infrastructure[side], detailed_scores.charger[side],
           detailed_scores.brand[side], detailed_scores.battery[side],
           detailed_scores.budget[side]>>)

\* x lies in [0, max]
InRange(x, max) == RLe(R(0), x) /\ RLe(x, R(max))

\* C1: calculate_comprehensive_score returns as totals the sums of the nine
\* category DR points and of the nine category SMP points; the recommendation
\* is "DR" exactly when the DR total is greater than the SMP total, so equal
\* totals give "SMP"; score_gap is the absolute difference of the totals.
C1_TotalsAndRecommendation ==
    op = "calculate_comprehensive_score" =>
        LET total_dr  == SumOfNine(result.detailed_scores, "dr")
            total_smp == SumOfNine(result.detailed_scores, "smp")
        IN  /\ result.total_scores.dr = total_dr
            /\ result.total_scores.smp = total_smp
            /\ result.recommendation \in {"DR", "SMP"}
            /\ (result.recommendation = "DR") <=> RGt(total_dr, total_smp)
            /\ (total_dr = total_smp) => (result.recommendation = "SMP")
            /\ result.score_gap = RAbs(RSub(total_dr, total_smp))

\* C1 witness: a call whose two totals are equal (69 points each) and whose
\* recommendation is "SMP".
C1_TieWitness ==
    /\ op = "calculate_comprehensive_score"
    /\ SumOfNine(result.detailed_scores, "dr") = R(69)
    /\ SumOfNine(result.detailed_scores, "smp") = R(69)
    /\ result.recommendation = "SMP"
    /\ result.score_gap = R(0)

\* C2: _create_integrated_comparison weighs each side as 0.6 * roi + 0.4 *
\* total score; the final recommendation is "DR" exactly when the DR weighted
\* score is greater (equal scores give "SMP"), whatever recommendations_match
\* is; the confidence label is very_high for a gap above 15, high above 10,
\* moderate above 5 and low otherwise; a DR lead above 15 gives "DR" with
\* very_high.
C2_WeightedRecommendation ==
    op = "_create_integrated_comparison" =>
        LET dr_roi    == args.revenue_analysis.DR.roi_metrics.roi
            smp_roi   == args.revenue_analysis.SMP.roi_metrics.roi
            dr_score  == args.score_result.total_scores.dr
            smp_score == args.score_result.total_scores.smp
            weighted_dr  == RAdd(RMul(Q(6, 10), dr_roi), RMul(Q(4, 10), dr_score))
            weighted_smp == RAdd(RMul(Q(6, 10), smp_roi), RMul(Q(4, 10), smp_score))
            gap  == RAbs(RSub(weighted_dr, weighted_smp))
            lead == RAdd(RMul(Q(6, 10), RSub(dr_roi, smp_roi)),
                         RMul(Q(4, 10), RSub(dr_score, smp_score)))
        IN  /\ result.metrics.dr_weighted = weighted_dr
            /\ result.metrics.smp_weighted = weighted_smp
            /\ result.final_recommendation \in {"DR", "SMP"}
            /\ (result.final_recommendation = "DR") <=> RGt(weighted_dr, weighted_smp)
            /\ (weighted_dr = weighted_smp) => (result.final_recommendation = "SMP")
            /\ (result.confidence = "very_high") <=> RGt(gap, R(15))
            /\ (result.confidence = "high") <=> (RGt(gap, R(10)) /\ RLe(gap, R(15)))
            /\ (result.confidence = "moderate") <=> (RGt(gap, R(5)) /\ RLe(gap, R(10)))
            /\ (result.confidence = "low") <=> RLe(gap, R(5))
            /\ RGt(lead, R(15)) =>
                   /\ result.final_recommendation = "DR"
                   /\ result.confidence = "very_high"

\* C2 witness: the revenue side and the score side disagree
\* (recommendations_match is false) and the final recommendation is "DR" with
\* the very_high label.
C2_MismatchWitness ==
    /\ op = "_create_integrated_comparison"
    /\ result.recommendations_match = FALSE
    /\ result.revenue_recommendation = "SMP"
    /\ result.final_recommendation = "DR"
    /\ result.confidence = "very_high"

\* C3: calculate_dr_revenue returns 12 monthly values whose sum is
\* annual_revenue; basic_fee + capacity_fee + reduction_fee = annual_revenue;
\* basic_fee and capacity_fee are 12 times an amount that does not depend on
\* the month (3000 per kW, and 2000 per kW times the location factor), and
\* what remains of each monthly value is the reduction fee of that month
\* (capacity * 30 * 2 * utilization * seasonal factor * 150).
C3_DrRevenueSums ==
    op = "calculate_dr_revenue" =>
        LET basic    == RMul(args.capacity_kw, Won(3000))
            capacity == RMul(RMul(args.capacity_kw, Won(2000)),
                             dr_location_factor(args.location))
        IN  /\ result.raised = "none"
            /\ Len(result.monthly_revenues) = 12
            /\ RSum(result.monthly_revenues) = result.annual_revenue
            /\ RAdd(RAdd(result.basic_fee, result.capacity_fee), result.reduction_fee)
                   = result.annual_revenue
            /\ result.basic_fee = RMul(R(12), basic)
            /\ result.capacity_fee = RMul(R(12), capacity)
            /\ \A month \in 1..12 :
                   RSub(result.monthly_revenues[month], RAdd(basic, capacity))
                       = RMul(RMul(RMul(args.capacity_kw, R(60)),
                                   RMul(args.annual_utilization, seasonal_factors[month])),
                              Won(150))

\* C3 witness: 1000 kW in sudogwon at utilization 0.7: 147,330,000 won a year,
\* of which 36,000,000 basic, 28,800,000 capacity and 82,530,000 reduction fee.
C3_DrRevenueWitness ==
    /\ op = "calculate_dr_revenue"
    /\ args.capacity_kw = R(1000)
    /\ args.location = "sudogwon"
    /\ args.annual_utilization = Q(7, 10)
    /\ result.annual_revenue = Won(147330000)
    /\ result.basic_fee = Won(36000000)
    /\ result.capacity_fee = Won(28800000)
    /\ result.reduction_fee = Won(82530000)
    /\ result.monthly_revenues[1] # result.monthly_revenues[4]

C5_ScaleFactorAndTotal ==
    (op = "calculate_investment_costs" /\ RGt(args.capacity_kw, R(0))) =>
        LET c      == args.capacity_kw
            factor == IF RGe(c, R(5000)) THEN Q(85, 100)
                      ELSE IF RGe(c, R(2000)) THEN Q(90, 100)
                      ELSE IF RGe(c, R(1000)) THEN Q(95, 100)
                      ELSE R(1)
            addon  == IF args.business_type = "DR" THEN Won(250000) ELSE Won(320000)
        IN  /\ result.raised = "none"
            /\ result.scale_factor = factor
            /\ \A k \in DOMAIN result.cost_breakdown :
                   result.cost_breakdown[k]
                       = RMul(all_costs_of(args.business_type)[k], factor)
            /\ Cardinality(DOMAIN result.cost_breakdown) = 6
            /\ result.equipment_cost = RMul(RMul(Won(1400000), c), factor)
            /\ result.additional_cost = RMul(RMul(addon, c), factor)
            /\ result.total_investment
                   = RMul(RMul(RAdd(Won(1400000), addon), c), factor)
            /\ RAdd(result.equipment_cost, result.additional_cost)
                   = result.total_investment
            /\ result.unit_cost_per_kw = RDiv(result.total_investment, c)

\* C5 witness: exactly 1000 kW of SMP gets the factor 0.95 and costs
\* 1,634,000 won per kW.
C5_ThresholdWitness ==
    /\ op = "calculate_investment_costs"
    /\ args.capacity_kw = R(1000)
    /\ args.business_type = "SMP"
    /\ result.scale_factor = Q(95, 100)
    /\ result.unit_cost_per_kw = Won(1634000)

\* C6: for investment_cost > 0, calculate_roi_metrics raises nothing;
\* payback_period is investment_cost / annual_net_income when
\* annual_net_income = annual_revenue - 0.05 * investment_cost is positive,
\* and the infinite sentinel when it is zero or negative.
C6_PaybackSentinel ==
    (op = "calculate_roi_metrics" /\ RGt(args.investment_cost, R(0))) =>
        LET annual_net_income ==
                RSub(args.annual_revenue, RMul(Q(5, 100), args.investment_cost))
        IN  /\ result.raised = "none"
            /\ result.annual_net_income = annual_net_income
            /\ RGt(annual_net_income, R(0)) =>
                   /\ result.payback_period
                          = RDiv(args.investment_cost, annual_net_income)
                   /\ result.payback_period # Inf
            /\ RLe(annual_net_income, R(0)) => (result.payback_period = Inf)

\* C6 witness: an investment of 1,000,000 won with a revenue of 50,000 won:
\* the net income is exactly 0 and the payback is the infinite sentinel.
C6_ZeroIncomeWitness ==
    /\ op = "calculate_roi_metrics"
    /\ args.investment_cost = Won(1000000)
    /\ args.annual_revenue = Won(50000)
    /\ result.annual_net_income = R(0)
    /\ result.payback_period = Inf

\* C7, as stated: with investment_cost = 0, calculate_roi_metrics returns a
\* result whose irr is 0, with the infinite payback sentinel when the net
\* income is zero or negative; no division fault leaves the call.
C7_ZeroInvestmentReturns ==
    (op = "calculate_roi_metrics" /\ args.investment_cost = R(0)) =>
        /\ result.raised = "none"
        /\ result.irr = R(0)
        /\ RLe(args.annual_revenue, R(0)) => (result.payback_period = Inf)

\* C7, what the code does: a call with investment_cost = 0 and a revenue of
\* 1,000,000 won ends in ZeroDivisionError (line 173 divides by
\* investment_cost before the guard of line 185 is reached).
C7_ZeroInvestmentRaises ==
    /\ op = "calculate_roi_metrics"
    /\ args.investment_cost = R(0)
    /\ args.annual_revenue = Won(1000000)
    /\ result.raised = "ZeroDivisionError"

\* C8, as stated: with capacity_kw <= 0, calculate_investment_costs,
\* calculate_smp_revenue and generate_comparison_report return a result or
\* fail with a validation error; no division fault leaves any of them.
C8_NonPositiveCapacityNoFault ==
    (/\ op \in {"calculate_investment_costs", "calculate_smp_revenue",
                "generate_comparison_report"}
     /\ RLe(args.capacity_kw, R(0))) =>
        result.raised \in {"none", "ValueError"}

\* C8, what the code does: generate_comparison_report with capacity_kw = 0
\* ends in ZeroDivisionError (calculate_investment_costs divides by
\* capacity_kw on line 163).
C8_ZeroCapacityRaises ==
    /\ op = "generate_comparison_report"
    /\ args.capacity_kw = R(0)
    /\ result.raised = "ZeroDivisionError"

\* The max of each category of detailed_scores.
CategoryMax ==
    [region |-> 20, scale |-> 25, risk |-> 12, parking |-> 16, infrastructure |-> 5,
     charger |-> 5, brand |-> 3, battery |-> 14, budget |-> 10]

\* The category a sub-scorer fills.
CategoryOf ==
    [calculate_region_score |-> "region", calculate_scale_score |-> "scale",
     calculate_risk_score |-> "risk", calculate_parking_pattern_score |-> "parking",
     calculate_infrastructure_score |-> "infrastructure",
     calculate_charger_ratio_score |-> "charger", calculate_brand_score |-> "brand",
     calculate_battery_degradation_score |-> "battery",
     calculate_budget_score |-> "budget"]

\* C9: in each of the nine categories the DR points and the SMP points lie in
\* [0, max] for the category's max (region 20, scale 25, risk 12, parking 16,
\* infrastructure 5, charger 5, brand 3, battery 14, budget 10), both in what
\* each sub-scorer returns and in the detailed_scores of
\* calculate_comprehensive_score, whose two totals lie in [0, 110].
C9_PointsWithinMax ==
    /\ op \in DOMAIN CategoryOf =>
           /\ InRange(result[1], CategoryMax[CategoryOf[op]])
           /\ InRange(result[2], CategoryMax[CategoryOf[op]])
    /\ op = "calculate_comprehensive_score" =>
           /\ \A i \in 1..Len(Categories) :
                  LET entry == result.detailed_scores[Categories[i]]
                  IN  /\ entry.max = CategoryMax[Categories[i]]
                      /\ InRange(entry.dr, entry.max)
                      /\ InRange(entry.smp, entry.max)
           /\ InRange(result.total_scores.dr, 110)
           /\ InRange(result.total_scores.smp, 110)
           /\ InRange(SumOfNine(result.detailed_scores, "dr"), 110)
           /\ InRange(SumOfNine(result.detailed_scores, "smp"), 110)

\* C9 witness: a comprehensive score in which categories reach both ends of
\* their range: risk 12 and budget 10 for DR with 0 for SMP, scale 25 for SMP.
C9_ExtremesWitness ==
    /\ op = "calculate_comprehensive_score"
    /\ result.detailed_scores.risk.dr = R(12)
    /\ result.detailed_scores.risk.smp = R(0)
    /\ result.detailed_scores.budget.dr = R(10)
    /\ result.detailed_scores.budget.smp = R(0)
    /\ result.detailed_scores.scale.smp = R(25)
    /\ result.detailed_scores.region.dr = R(20)

\* C10: calculate_scale_score returns (25, 4) up to 3000 kW, (17, 13) above
\* 3000 up to 8000, (11, 19) above 8000 up to 15000 and (6, 25) above 15000;
\* against every capacity that is not larger, the DR score is not higher and
\* the SMP score is not lower.
C10_ScaleBands ==
    op = "calculate_scale_score" =>
        LET c == args.capacity_kw
        IN  /\ RLe(c, R(3000)) => (result = <<R(25), R(4)>>)
            /\ (RGt(c, R(3000)) /\ RLe(c, R(8000))) => (result = <<R(17), R(13)>>)
            /\ (RGt(c, R(8000)) /\ RLe(c, R(15000))) => (result = <<R(11), R(19)>>)
            /\ RGt(c, R(15000)) => (result = <<R(6), R(25)>>)
            /\ \A c1 \in ScaleCapacities :
                   RLe(c1, c) =>
                       /\ RLe(result[1], calculate_scale_score(c1)[1])
                       /\ RGe(result[2], calculate_scale_score(c1)[2])

\* C10 witness: exactly 15000 kW is still in the third band.
C10_BoundaryWitness ==
    /\ op = "calculate_scale_score"
    /\ args.capacity_kw = R(15000)
    /\ result = <<R(11), R(19)>>

\* C11: calculate_budget_score returns (10, 0) below 10, (8, 2) on [10, 30),
\* (6, 4) on [30, 80), (5, 5) on [80, 150), (4, 6) on [150, 300), (2, 8) on
\* [300, 500) and (0, 10) from 500 up; the two points sum to 10; against every
\* budget that is not larger, the DR points are not higher and the SMP points
\* not lower.
C11_BudgetBands ==
    op = "calculate_budget_score" =>
        LET b == args.budget_billion
        IN  /\ RLt(b, R(10)) => (result = <<R(10), R(0)>>)
            /\ (RGe(b, R(10)) /\ RLt(b, R(30))) => (result = <<R(8), R(2)>>)
            /\ (RGe(b, R(30)) /\ RLt(b, R(80))) => (result = <<R(6), R(4)>>)
            /\ (RGe(b, R(80)) /\ RLt(b, R(150))) => (result = <<R(5), R(5)>>)
            /\ (RGe(b, R(150)) /\ RLt(b, R(300))) => (result = <<R(4), R(6)>>)
            /\ (RGe(b, R(300)) /\ RLt(b, R(500))) => (result = <<R(2), R(8)>>)
            /\ RGe(b, R(500)) => (result = <<R(0), R(10)>>)
            /\ RAdd(result[1], result[2]) = R(10)
            /\ \A b1 \in AllBudgets :
                   RLe(b1, b) =>
                       /\ RLe(result[1], calculate_budget_score(b1)[1])
                       /\ RGe(result[2], calculate_budget_score(b1)[2])

\* C11 witness: a budget of exactly 300 is in the band [300, 500).
C11_ThresholdWitness ==
    /\ op = "calculate_budget_score"
    /\ args.budget_billion = R(300)
    /\ result = <<R(2), R(8)>>

\* The weighted-average SOH of four ratios: each ratio divided by their sum
\* when the sum is positive, then weighted 0.70 / 0.775 / 0.90 / 0.975.
WeightedSoh(u, v, w, x) ==
    LET total == RAdd(RAdd(RAdd(u, v), w), x)
        avg   == RAdd(RAdd(RAdd(RMul(u, Q(700, 1000)), RMul(v, Q(775, 1000))),
                           RMul(w, Q(900, 1000))),
                      RMul(x, Q(975, 1000)))
    IN  IF RGt(total, R(0)) THEN RDiv(avg, total) ELSE avg

SohTotal == RSum(<<args.soh_under_70, args.soh_70_85, args.soh_85_95, args.soh_over_95>>)

SohNormalizedTotal ==
    RSum(<<soh_normalized(args.soh_under_70, SohTotal),
           soh_normalized(args.soh_70_85, SohTotal),
           soh_normalized(args.soh_85_95, SohTotal),
           soh_normalized(args.soh_over_95, SohTotal)>>)

\* The positive constants the four ratios are multiplied by.
SohScalings == {Q(1, 2), R(2), R(3)}

\* The returned pair is the pair of the same ratios multiplied by k, for
\* every k of SohScalings.
SohScaleInvariant ==
    \A k \in SohScalings :
        calculate_battery_degradation_score(
            RMul(k, args.soh_under_70), RMul(k, args.soh_70_85),
            RMul(k, args.soh_85_95), RMul(k, args.soh_over_95)) = result

\* C13, as stated: for every four non-negative SOH ratios, the ratios sum to
\* 1 after the renormalization, and the returned pair is unchanged when the
\* four are multiplied by the same positive constant.
C13_AlwaysRenormalized ==
    op = "calculate_battery_degradation_score" =>
        /\ SohNormalizedTotal = R(1)
        /\ SohScaleInvariant

\* C13, amended: four non-negative SOH ratios with a positive sum are
\* renormalized to sum to 1; four ratios that are all 0 are used as they are
\* (their sum stays 0); in both cases the returned pair is unchanged when the
\* four are multiplied by the same positive constant.
C13_RenormalizedWhenPositive ==
    op = "calculate_battery_degradation_score" =>
        /\ RGt(SohTotal, R(0)) => (SohNormalizedTotal = R(1))
        /\ (SohTotal = R(0)) => (SohNormalizedTotal = R(0))
        /\ SohScaleInvariant

\* C13 witness: the ratios 1/4, 1/4, 2/4, 2/4 sum to 3/2; renormalized they
\* average 0.8708... and give (14, 10) (used as they are they would average
\* 1.306 and give 14 SMP points).
C13_RenormalizedWitness ==
    /\ op = "calculate_battery_degradation_score"
    /\ args.soh_under_70 = Q(1, 4)
    /\ args.soh_70_85 = Q(1, 4)
    /\ args.soh_85_95 = Q(2, 4)
    /\ args.soh_over_95 = Q(2, 4)
    /\ SohTotal = Q(3, 2)
    /\ SohNormalizedTotal = R(1)
    /\ result = <<R(14), R(10)>>

\* Every one of the nine categories of a detailed_scores gives equal DR and
\* SMP points.
AllNineEven(detailed_scores) ==
    \A i \in 1..Len(Categories) :
        detailed_scores[Categories[i]].dr = detailed_scores[Categories[i]].smp

\* C14, as stated: there is a V2GScoreInput for which every one of the nine
\* categories gives equal DR and SMP points (so that the totals are equal and
\* the recommendation is "SMP"): before a call, one of the inputs the scorer
\* can be called with is such an input.
C14_SymmetricInputExists ==
    Idle =>
        \E c \in ScoreCapacities, l \in ScoreLocations, b \in Budgets,
           rp \in RiskPreferences, dt \in DispatchRatios, inf \in InfraInputs,
           ch \in ChargerInputs, bt \in BrandTypes, soh \in SohInputs :
            AllNineEven(detailed_scores_of(ScoreInput(c, l, b, rp, dt, inf, ch, bt, soh)))

\* C14, amended: the scale category and the brand category never give equal
\* DR and SMP points, so no input makes all nine categories even; the totals
\* can still be equal, the differences of the categories cancelling, and the
\* recommendation is then "SMP".
C14_TieOnlyByCancelling ==
    /\ op \in {"calculate_scale_score", "calculate_brand_score"} =>
           result[1] # result[2]
    /\ op = "calculate_comprehensive_score" =>
           /\ result.detailed_scores.scale.dr # result.detailed_scores.scale.smp
           /\ result.detailed_scores.brand.dr # result.detailed_scores.brand.smp
           /\ ~AllNineEven(result.detailed_scores)
           /\ (SumOfNine(result.detailed_scores, "dr")
                   = SumOfNine(result.detailed_scores, "smp"))
                  => (result.recommendation = "SMP")

\* C14 witness: an unmapped location, risk "neutral" and a capacity of
\* exactly 8000 kW: scale gives (17, 13), brand (1, 3) and budget (4, 6), the
\* six other categories are even, the totals are equal and the
\* recommendation is "SMP".
C14_CancellingTieWitness ==
    /\ op = "calculate_comprehensive_score"
    /\ args.input_data.location = "other"
    /\ args.input_data.risk_preference = "neutral"
    /\ args.input_data.capacity_kw = R(8000)
    /\ result.detailed_scores.scale.dr = R(17)
    /\ result.detailed_scores.scale.smp = R(13)
    /\ result.detailed_scores.brand.dr = R(1)
    /\ result.detailed_scores.brand.smp = R(3)
    /\ result.detailed_scores.budget.dr = R(4)
    /\ result.detailed_scores.budget.smp = R(6)
    /\ result.total_scores.dr = result.total_scores.smp
    /\ result.recommendation = "SMP"

\* The band (1 the largest .. 5 the smallest) of a number of charging spots
\* and of a power capacity, and the pair of each band.
SpotsBand(charging_spots) ==
    IF charging_spots > 200 THEN 1
    ELSE IF charging_spots > 120 THEN 2
    ELSE IF charging_spots > 80 THEN 3
    ELSE IF charging_spots > 40 THEN 4
    ELSE 5

MvaBand(power_capacity_mva) ==
    IF RGt(power_capacity_mva, R(1)) THEN 1
    ELSE IF RGt(power_capacity_mva, Q(6, 10)) THEN 2
    ELSE IF RGt(power_capacity_mva, Q(4, 10)) THEN 3
    ELSE IF RGt(power_capacity_mva, Q(2, 10)) THEN 4
    ELSE 5

BandPairs ==
    <<<<R(1), R(5)>>, <<R(2), R(4)>>, <<R(3), R(3)>>, <<R(4), R(2)>>, <<R(5), R(1)>>>>

\* C15: calculate_infrastructure_score returns, for every charging_spots and
\* power_capacity_mva, the pair of the band both values fall in ((1, 5) for
\* spots > 200 and MVA > 1.0, (2, 4) for (120, 200] and (0.6, 1.0], (3, 3) for
\* (80, 120] and (0.4, 0.6], (4, 2) for (40, 80] and (0.2, 0.4], (5, 1) for
\* spots <= 40 and MVA <= 0.2) and (3, 3) when the two values fall in
\* different bands; the two points sum to 6.
C15_InfrastructureBands ==
    op = "calculate_infrastructure_score" =>
        LET sb == SpotsBand(args.charging_spots)
            mb == MvaBand(args.power_capacity_mva)
        IN  /\ (sb = mb) => (result = BandPairs[sb])
            /\ (sb # mb) => (result = <<R(3), R(3)>>)
            /\ RAdd(result[1], result[2]) = R(6)

\* C15 witness: 201 spots (top band) with 0.2 MVA (bottom band) get the
\* neutral pair.
C15_MixedBandsWitness ==
    /\ op = "calculate_infrastructure_score"
    /\ args.charging_spots = 201
    /\ args.power_capacity_mva = Q(2, 10)
    /\ result = <<R(3), R(3)>>

\* C16: calculate_region_score gives (20, 10) to the six DR-preferred regions,
\* (10, 20) to the seven SMP-preferred regions and to the aliases yeongnam (of
\* gyeongsang) and honam (of jeolla), which score as the regions they stand
\* for, and (15, 15) to every other string; sudogwon scores (20, 10).
C16_RegionClasses ==
    op = "calculate_region_score" =>
        LET l == args.location
            dr_class  == {"sudogwon", "sejong", "gwangju", "daejeon", "daegu", "gangwon"}
            smp_class == {"incheon", "busan", "ulsan", "gyeongsang", "chungcheong",
                          "jeolla", "jeju", "yeongnam", "honam"}
        IN  /\ result \in {<<R(20), R(10)>>, <<R(10), R(20)>>, <<R(15), R(15)>>}
            /\ (l \in dr_class) <=> (result = <<R(20), R(10)>>)
            /\ (l \in smp_class) <=> (result = <<R(10), R(20)>>)
            /\ (l \notin dr_class \cup smp_class) <=> (result = <<R(15), R(15)>>)
            /\ (l = "yeongnam") => (result = calculate_region_score("gyeongsang"))
            /\ (l = "honam") => (result = calculate_region_score("jeolla"))
            /\ (l = "sudogwon") => (result = <<R(20), R(10)>>)

\* C16 witness: the alias yeongnam scores (10, 20).
C16_AliasWitness ==
    /\ op = "calculate_region_score"
    /\ args.location = "yeongnam"
    /\ result = <<R(10), R(20)>>

\* C17: an unrecognized tag falls back to its default: a risk_preference
\* outside stable / neutral / high_risk scores (6, 6) as neutral does; a
\* brand_type other than b2g_large scores (1, 3); a location in neither
\* factor table uses the multiplier 1.0 in calculate_dr_revenue and in
\* calculate_smp_revenue, so its result is that of a location whose
\* multiplier is 1.0 (chungcheong for DR, sudogwon for SMP) with the same
\* capacity, utilization and draws; the call raises nothing unless
\* capacity_kw is 0, where it fails for every location alike.
C17_UnknownTagDefaults ==
    /\ (op = "calculate_risk_score"
            /\ args.risk_preference \notin {"stable", "neutral", "high_risk"}) =>
           /\ result = <<R(6), R(6)>>
           /\ result = calculate_risk_score("neutral")
    /\ (op = "calculate_brand_score" /\ args.brand_type # "b2g_large") =>
           result = <<R(1), R(3)>>
    /\ (op = "calculate_dr_revenue" /\ args.location = "other") =>
           /\ result.raised = "none"
           /\ result.capacity_fee
                  = RMul(R(12), RMul(RMul(args.capacity_kw, Won(2000)), R(1)))
           /\ dr_location_factor("chungcheong") = R(1)
           /\ result = calculate_dr_revenue(args.capacity_kw, "chungcheong",
                                            args.annual_utilization)
    /\ (op = "calculate_smp_revenue" /\ args.location = "other") =>
           /\ (args.capacity_kw # R(0)) => (result.raised = "none")
           /\ location_smp_factor("sudogwon") = R(1)
           /\ result = calculate_smp_revenue(args.capacity_kw, "sudogwon",
                                             args.annual_utilization, args.source)

\* C17 witness: 1000 kW at utilization 0.7 in an unlisted location earn
\* 142,530,000 won of DR revenue a year, 24,000,000 of it capacity fee.
C17_UnknownLocationWitness ==
    /\ op = "calculate_dr_revenue"
    /\ args.location = "other"
    /\ args.capacity_kw = R(1000)
    /\ args.annual_utilization = Q(7, 10)
    /\ result.capacity_fee = Won(24000000)
    /\ result.annual_revenue = Won(142530000)

\* The points of a port ratio ports / total_ports (0 when total_ports is 0).
PortBand(ports, total_ports) ==
    IF total_ports <= 0 THEN R(1)
    ELSE IF 10 * ports > 6 * total_ports THEN R(5)
    ELSE IF 10 * ports > 4 * total_ports THEN R(4)
    ELSE IF 10 * ports > 3 * total_ports THEN R(3)
    ELSE IF 10 * ports > 2 * total_ports THEN R(2)
    ELSE R(1)

\* C18: calculate_charger_ratio_score maps smart_ocpp_ports / total_ports to
\* the DR points and v2g_ports / total_ports to the SMP points through the
\* same bands (above 0.6 -> 5, (0.4, 0.6] -> 4, (0.3, 0.4] -> 3, (0.2, 0.3]
\* -> 2, up to 0.2 -> 1); the DR points are the same for every v2g_ports and
\* the SMP points for every smart_ocpp_ports; with total_ports = 0 the result
\* is (1, 1).
C18_ChargerRatioBands ==
    op = "calculate_charger_ratio_score" =>
        /\ result[1] = PortBand(args.smart_ocpp_ports, args.total_ports)
        /\ result[2] = PortBand(args.v2g_ports, args.total_ports)
        /\ \A ports \in 0..MaxPorts :
               /\ calculate_charger_ratio_score(
                      args.total_ports, args.smart_ocpp_ports, ports)[1] = result[1]
               /\ calculate_charger_ratio_score(
                      args.total_ports, ports, args.v2g_ports)[2] = result[2]
        /\ (args.total_ports = 0) => (result = <<R(1), R(1)>>)

\* C18 witness: no port at all, 5 smart and 5 V2G ports declared: (1, 1).
C18_NoPortsWitness ==
    /\ op = "calculate_charger_ratio_score"
    /\ args.total_ports = 0
    /\ args.smart_ocpp_ports = 5
    /\ args.v2g_ports = 5
    /\ result = <<R(1), R(1)>>

\* C19: calculate_parking_pattern_score gives (12.8, 3.2) for a
\* dr_dispatch_time_ratio above 0.5, (8, 8) from 0.25 to 0.5 and (3.2, 12.8)
\* below 0.25; the two points sum to 16; the result is the same for every
\* regular_pattern_ratio.
C19_ParkingSplit ==
    op = "calculate_parking_pattern_score" =>
        LET d == args.dr_dispatch_time_ratio
        IN  /\ RGt(d, Q(1, 2)) => (result = <<Q(128, 10), Q(32, 10)>>)
            /\ (RGe(d, Q(1, 4)) /\ RLe(d, Q(1, 2))) => (result = <<R(8), R(8)>>)
            /\ RLt(d, Q(1, 4)) => (result = <<Q(32, 10), Q(128, 10)>>)
            /\ RAdd(result[1], result[2]) = R(16)
            /\ \A r \in RegularPatternRatios :
                   calculate_parking_pattern_score(r, d) = result

\* C19 witness: a dispatch ratio of exactly 0.5 with a regular pattern ratio
\* of 1 gives the even split.
C19_HalfWitness ==
    /\ op = "calculate_parking_pattern_score"
    /\ args.dr_dispatch_time_ratio = Q(1, 2)
    /\ args.regular_pattern_ratio = R(1)
    /\ result = <<R(8), R(8)>>

---------------------------------------------------------------------------
(* C20: the Monte Carlo loop of risk_analysis                              *)

\* the call has returned its dict of risk metrics
Reported == op = "risk_analysis" /\ result.raised = "none" /\ "dr_risk_metrics" \in DOMAIN result

PositiveCount(rois) == Cardinality({i \in 1..Len(rois) : RGt(rois[i], R(0))})

\* k / 1000 for a whole k of 0..1000
IsShareOfTrials(p) == \E k \in 0..num_simulations : p = Q(k, num_simulations)

\* the utilizations the last trial passed to the report lie in their ranges
UtilizationsClamped ==
    /\ RLe(Q(1, 10), result.utilization_dr) /\ RLe(result.utilization_dr, Q(95, 100))
    /\ RLe(Q(1, 10), result.utilization_smp) /\ RLe(result.utilization_smp, Q(85, 100))

\* C20 as the claim states it: every call of risk_analysis runs its 1000
\* trials (no trial ends the call with an exception), after each trial the two
\* lists have one ROI per trial run so far and the utilizations passed to the
\* report lie in [0.1, 0.95] and [0.1, 0.85], and the reported prob_positive
\* of each line is k / 1000 for a whole k of 0..1000, so within [0, 1].
\* It fails: a scenario of capacity_kw = 0 raises the ZeroDivisionError of C8
\* in the first trial.
C20_ThousandTrialsAlwaysRun ==
    op = "risk_analysis" =>
        /\ result.raised = "none"
        /\ InLoop =>
              /\ Len(result.dr_rois) = Len(result.smp_rois)
              /\ Len(result.dr_rois) <= num_simulations
              /\ Len(result.dr_rois) > 0 => UtilizationsClamped
        /\ Reported =>
              /\ IsShareOfTrials(result.dr_risk_metrics.prob_positive)
              /\ IsShareOfTrials(result.smp_risk_metrics.prob_positive)

\* C20, the failing call: the scenario has no capacity and the first trial's
\* report raised ZeroDivisionError, so no ROI was collected and nothing reported.
C20_FirstTrialRaises ==
    /\ op = "risk_analysis"
    /\ args.capacity_kw = R(0)
    /\ result = Raise("ZeroDivisionError")

\* C20, the part that holds: while no report raises, the lists grow together by
\* one ROI a trial up to 1000, the utilizations of every trial are clamped,
\* and a reported prob_positive is k / 1000 within [0, 1].
C20_ClampedWhileRunning ==
    /\ InLoop =>
          /\ Len(result.dr_rois) = Len(result.smp_rois)
          /\ Len(result.dr_rois) <= num_simulations
          /\ Len(result.dr_rois) > 0 => UtilizationsClamped
    /\ Reported =>
          /\ IsShareOfTrials(result.dr_risk_metrics.prob_positive)
          /\ IsShareOfTrials(result.smp_risk_metrics.prob_positive)
          /\ InRange(result.dr_risk_metrics.prob_positive, 1)
          /\ InRange(result.smp_risk_metrics.prob_positive, 1)

\* C20, the step that reports: it is taken after exactly 1000 trials and each
\* prob_positive is the number of positive ROIs of its list over 1000.
C20_ReportedAfterAllTrials ==
    [][(InLoop /\ Reported') =>
          /\ Len(result.dr_rois) = num_simulations
          /\ Len(result.smp_rois) = num_simulations
          /\ result'.dr_risk_metrics.prob_positive
                = Q(PositiveCount(result.dr_rois), num_simulations)
          /\ result'.smp_risk_metrics.prob_positive
                = Q(PositiveCount(result.smp_rois), num_simulations)]_vars

\* C20: a call that ran all trials with draws below, inside and above the
\* clamping ranges; some SMP ROIs were positive and some were not.
C20_MixedRunReported ==
    /\ Reported
    /\ args.normal_source = "mixed"
    /\ RLt(R(0), result.smp_risk_metrics.prob_positive)
    /\ RLt(result.smp_risk_metrics.prob_positive, R(1))

---------------------------------------------------------------------------
(* C21: the end-to-end scenario 1000 kW, sudogwon, DR 0.7, SMP 0.6         *)

EndToEndScenario ==
    /\ op = "generate_comparison_report"
    /\ args.capacity_kw = R(1000)
    /\ args.location = "sudogwon"
    /\ args.utilization_dr = Q(7, 10)
    /\ args.utilization_smp = Q(6, 10)

\* some (month, day, hour) draw of the call lies below the adjusted utilization
SomeDrawFires(source, annual_utilization) ==
    \E month \in 1..Len(seasonal_demand_factors), day \in 1..days_in_month,
       hour \in 1..Len(hourly_smp_factors) :
        RLt(Q(draw_level(source, month, day, hour), DrawDen),
            RMul(annual_utilization, seasonal_demand_factors[month]))

\* C21 as the claim states it: in the end-to-end scenario the report returns a
\* strictly positive DR annual revenue and a strictly positive SMP annual
\* revenue for every outcome of the draws.
C21_BothRevenuesPositive ==
    EndToEndScenario =>
        /\ result.raised = "none"
        /\ RGt(result.DR.revenue.annual_revenue, R(0))
        /\ RGt(result.SMP.revenue.annual_revenue, R(0))

\* C21, amended: in the end-to-end scenario the report returns, the DR annual
\* revenue is strictly positive, the SMP annual revenue is never negative,
\* and it is strictly positive exactly when some draw fires.
C21_SmpPositiveWhenSomeDrawFires ==
    EndToEndScenario =>
        /\ result.raised = "none"
        /\ RGt(result.DR.revenue.annual_revenue, R(0))
        /\ RGe(result.SMP.revenue.annual_revenue, R(0))
        /\ RGt(result.SMP.revenue.annual_revenue, R(0))
             <=> SomeDrawFires(args.source, args.utilization_smp)

\* C21: the end-to-end scenario on a run whose every draw is the largest value
\* below 1; no slot fires and the SMP annual revenue is 0.
C21_NoDrawFiresWitness ==
    /\ EndToEndScenario
    /\ args.source = "high"
    /\ result.raised = "none"
    /\ RGt(result.DR.revenue.annual_revenue, R(0))
    /\ result.SMP.revenue.annual_revenue = R(0)

---------------------------------------------------------------------------
(* C22: calculate_smp_revenue is the sum over the slots whose draw fired   *)

\* hour factors, in tenths, of the hours 1..hours of one day whose draw fired
RECURSIVE FiredTenthsOfDay(_, _, _, _, _)
FiredTenthsOfDay(source, month, day, hours, adjusted_utilization) ==
    IF hours = 0 THEN 0
    ELSE FiredTenthsOfDay(source, month, day, hours - 1, adjusted_utilization)
         + (IF RLt(Q(draw_level(source, month, day, hours), DrawDen), adjusted_utilization)
            THEN hourly_smp_factors[hours] ELSE 0)

\* the same over the days 1..days of the month, slot by slot
RECURSIVE FiredTenthsOfMonth(_, _, _, _)
FiredTenthsOfMonth(source, month, days, adjusted_utilization) ==
    IF days = 0 THEN 0
    ELSE FiredTenthsOfMonth(source, month, days - 1, adjusted_utilization)
         + FiredTenthsOfDay(source, month, days, Len(hourly_smp_factors), adjusted_utilization)

RECURSIVE SumOfTenths(_)
SumOfTenths(hours) ==
    IF hours = 0 THEN 0 ELSE SumOfTenths(hours - 1) + hourly_smp_factors[hours]

\* capacity * 85 * hour_factor * location_factor for tenths / 10 of hour factor
SlotRevenue(capacity_kw, location, tenths) ==
    RMul(RMul(RMul(capacity_kw, smp_base_price), Q(tenths, 10)), location_smp_factor(location))

\* what C22 says of a returned result
SmpRevenueAsClaimed ==
    /\ result.annual_revenue = RSum(result.monthly_revenues)
    /\ Len(result.monthly_revenues) = 12
    /\ \A month \in 1..Len(seasonal_demand_factors) :
         /\ result.monthly_revenues[month]
              = SlotRevenue(args.capacity_kw, args.location,
                            FiredTenthsOfMonth(args.source, month, days_in_month,
                                RMul(args.annual_utilization, seasonal_demand_factors[month])))
         /\ RLe(R(0), result.monthly_revenues[month])
         /\ RLe(result.monthly_revenues[month],
                SlotRevenue(args.capacity_kw, args.location,
                            days_in_month * SumOfTenths(Len(hourly_smp_factors))))
         /\ RGe(RMul(args.annual_utilization, seasonal_demand_factors[month]), R(1)) =>
              result.monthly_revenues[month]
                = SlotRevenue(args.capacity_kw, args.location,
                              days_in_month * SumOfTenths(Len(hourly_smp_factors)))
         /\ args.annual_utilization = R(0) => result.monthly_revenues[month] = R(0)
    /\ args.annual_utilization = R(0) => result.average_price = R(0)

\* C22 as the claim states it: for every capacity_kw >= 0, location,
\* utilization and outcome of the draws calculate_smp_revenue returns, its
\* annual_revenue is the sum of the 12 monthly values, each monthly value is
\* the sum of capacity * 85 * hour_factor * location_factor over the slots
\* that fired, lies between 0 and the value with every slot fired, equals
\* that bound when the adjusted utilization is at least 1, and is 0 with
\* average_price 0 when the utilization is 0.
\* It fails: capacity_kw = 0 with a positive utilization raises the
\* ZeroDivisionError of C8.
C22_SmpRevenueIsSumOfFiredSlots ==
    (op = "calculate_smp_revenue" /\ RGe(args.capacity_kw, R(0))) =>
        /\ result.raised = "none"
        /\ SmpRevenueAsClaimed

\* C22, the failing call: no capacity, a positive utilization.
C22_ZeroCapacityRaises ==
    /\ op = "calculate_smp_revenue"
    /\ args.capacity_kw = R(0)
    /\ RGt(args.annual_utilization, R(0))
    /\ result = Raise("ZeroDivisionError")

\* C22, the part that holds: the call raises exactly when capacity_kw = 0 and
\* the utilization is positive, and every result returned for a capacity
\* >= 0 is as the claim says.
C22_SumOfFiredSlotsWhenReturned ==
    (op = "calculate_smp_revenue" /\ RGe(args.capacity_kw, R(0))) =>
        /\ result.raised # "none"
             <=> (args.capacity_kw = R(0) /\ RGt(args.annual_utilization, R(0)))
        /\ result.raised = "none" => SmpRevenueAsClaimed

\* C22: a returned result in which some slots fired and others did not, and
\* one whose every slot fired in a month of adjusted utilization 1.
C22_PartlyFiredWitness ==
    /\ op = "calculate_smp_revenue"
    /\ args.capacity_kw = R(1000)
    /\ args.source = "mixed"
    /\ result.raised = "none"
    /\ RLt(R(0), result.monthly_revenues[5])
    /\ RLt(result.monthly_revenues[5],
           SlotRevenue(args.capacity_kw, args.location,
                       days_in_month * SumOfTenths(Len(hourly_smp_factors))))

---------------------------------------------------------------------------
(* C23: the metrics of calculate_roi_metrics agree with one another        *)

\* C23: for every annual_revenue, investment_cost > 0 and operation_years >= 1
\* the call returns with roi = irr * operation_years - 100, with
\* payback_period * irr = 100 when annual_net_income > 0, with roi > 0 exactly
\* when payback_period < operation_years, and with roi <= -100 when the
\* payback is infinite.
C23_MetricsConsistent ==
    (/\ op = "calculate_roi_metrics"
     /\ RGt(args.investment_cost, R(0))
     /\ args.operation_years >= 1) =>
        /\ result.raised = "none"
        /\ result.roi = RSub(RMul(result.irr, R(args.operation_years)), R(100))
        /\ RGt(result.annual_net_income, R(0)) =>
              /\ result.payback_period # Inf
              /\ RMul(result.payback_period, result.irr) = R(100)
        /\ RGt(result.roi, R(0))
             <=> (result.payback_period # Inf
                  /\ RLt(result.payback_period, R(args.operation_years)))
        /\ result.payback_period = Inf => RLe(result.roi, R(0 - 100))

\* C23: the investment is paid back exactly at the horizon (payback_period =
\* operation_years = 10): roi is 0, not positive.
C23_PaybackAtHorizonWitness ==
    /\ op = "calculate_roi_metrics"
    /\ RGt(args.investment_cost, R(0))
    /\ args.operation_years = 10
    /\ result.raised = "none"
    /\ result.payback_period = R(10)
    /\ result.roi = R(0)
    /\ result.irr = R(10)

---------------------------------------------------------------------------
(* C24: risk_analysis run twice from the same seed                         *)

\* the second run of the same scenario from the same seed has ended
SecondRunEnded == op = "risk_analysis" /\ ~InLoop /\ "first" \in DOMAIN args

---------------------------------------------------------------------------
(* C25: no shared mutable state across analyses.                           *)

\* C25 (as stated): the result of an analysis does not depend on which
\* analyses ran before it: a call of calculate_smp_revenue returns what the
\* same call returns when it is the first one after the generator was seeded.
C25_ResultIndependentOfHistory ==
    op = "calculate_smp_revenue" =>
        result = calculate_smp_revenue(args.capacity_kw, args.location,
                                       args.annual_utilization, seeded)

\* C25, the part that holds: an analysis that draws nothing returns the same
\* value whatever ran before it, and the result of a drawing analysis is
\* fixed by its arguments and the generator's state when it was called.
C25_ResultFixedByArgumentsAndGenerator ==
    /\ op = "calculate_dr_revenue" =>
           result = calculate_dr_revenue(args.capacity_kw, args.location,
                                         args.annual_utilization)
    /\ op = "calculate_smp_revenue" =>
           /\ result = calculate_smp_revenue(args.capacity_kw, args.location,
                                             args.annual_utilization, args.source)
           /\ generator = after_draws(args.source)

\* the generator is moved by the drawing call and by nothing else
C25_OnlyDrawingCallsMoveGenerator ==
    [][generator' # generator => op' = "calculate_smp_revenue"]_vars

\* a second call of calculate_smp_revenue, with the arguments of a first
\* call after seeding, that returns another annual revenue
C25_SecondCallDiffers ==
    /\ op = "calculate_smp_revenue"
    /\ args.source # seeded
    /\ result.raised = "none"
    /\ result # calculate_smp_revenue(args.capacity_kw, args.location,
                                      args.annual_utilization, seeded)

---------------------------------------------------------------------------
(* C28: the blended decision never overrules a unanimous pair.             *)

\* C28: in _create_integrated_comparison, recommendations_match is the
\* equality of the revenue and the score recommendation; when they are equal
\* the final recommendation is that same business line, so the final
\* recommendation differs from one of the two only when they disagree.
C28_UnanimousPairKept ==
    op = "_create_integrated_comparison" =>
        /\ result.recommendations_match
               = (result.revenue_recommendation = result.score_recommendation)
        /\ result.score_recommendation = args.score_result.recommendation
        /\ result.recommendations_match =>
               /\ result.final_recommendation = result.revenue_recommendation
               /\ result.final_recommendation = result.score_recommendation
        /\ (\/ result.final_recommendation # result.revenue_recommendation
            \/ result.final_recommendation # result.score_recommendation)
               => ~result.recommendations_match

\* both recommendations are SMP on a tie of the ROIs and a tie of the totals:
\* the weighted scores are equal and the final recommendation is SMP
C28_UnanimousTieWitness ==
    /\ op = "_create_integrated_comparison"
    /\ result.recommendations_match
    /\ args.revenue_analysis.DR.roi_metrics.roi = args.revenue_analysis.SMP.roi_metrics.roi
    /\ args.score_result.score_gap = R(0)
    /\ result.metrics.weighted_gap = R(0)
    /\ result.final_recommendation = "SMP"

\* a unanimous DR pair and a disagreeing pair are both met
C28_DisagreeingPairWitness ==
    /\ op = "_create_integrated_comparison"
    /\ ~result.recommendations_match
    /\ result.final_recommendation = result.score_recommendation
    /\ result.final_recommendation # result.revenue_recommendation

---------------------------------------------------------------------------
(* C29: the two implementations of the recommendation combiner             *)

\* a revenue result and a score result with every key the combiners read
WellFormedPair(basic_result, score_result) ==
    /\ basic_result \in RevenueAnalyses
    /\ score_result # None
    /\ {"total_scores", "recommendation", "score_gap"} \subseteq DOMAIN score_result

\* C29: for a well-formed revenue result and score result,
\* generate_final_recommendation returns the business line and the confidence
\* label that _create_integrated_comparison returns for the same pair; when it
\* fails internally (a result that is None) it returns the fixed fallback, DR
\* with confidence low, and raises nothing.
C29_CombinersAgree ==
    op = "generate_final_recommendation" =>
        /\ result.raised = "none"
        /\ WellFormedPair(args.basic_result, args.score_result) =>
               /\ result.recommendation =
                      create_integrated_comparison(args.basic_result,
                                                   args.score_result).final_recommendation
               /\ result.confidence =
                      create_integrated_comparison(args.basic_result,
                                                   args.score_result).confidence
        /\ (args.basic_result = None \/ args.score_result = None) =>
               /\ result = fallback_recommendation
               /\ result.recommendation = "DR"
               /\ result.confidence = "low"

\* a well-formed pair on which both combiners answer SMP with a confidence
\* above low
C29_AgreeOnSmpWitness ==
    /\ op = "generate_final_recommendation"
    /\ WellFormedPair(args.basic_result, args.score_result)
    /\ result.recommendation = "SMP"
    /\ result.confidence \in {"moderate", "high", "very_high"}
    /\ create_integrated_comparison(args.basic_result,
                                    args.score_result).final_recommendation = "SMP"

\* the fallback is reached
C29_FallbackWitness ==
    /\ op = "generate_final_recommendation"
    /\ args.basic_result = None
    /\ result = fallback_recommendation

---------------------------------------------------------------------------
(* C26: no core error escapes the web wrappers                             *)

\* every step of run_integrated_analysis completes on these arguments
EveryStepCompletes(basic_inputs, score_inputs, source) ==
    /\ BasicKeys \subseteq DOMAIN basic_inputs
    /\ ScoreKeys \subseteq DOMAIN score_inputs
    /\ run_consultation(basic_inputs, source).raised = "none"

\* the scoring step of basic_analysis fails: a text that is no numeral where
\* a number is converted
ScoringStepFails(data) ==
    \E key \in {"charging_spots", "total_ports", "budget_billion"} \cap DOMAIN data :
        "text" \in DOMAIN data[key] /\ data[key].text \notin DOMAIN Numerals

\* C26: run_integrated_analysis_from_web raises nothing: it returns
\* success False with the error's text when a key is missing or the core
\* raises (capacity 0), and success True exactly when every step completed;
\* in basic_analysis a failure of the scoring step alone yields a success
\* response with the basic result and without score_result and
\* final_recommendation.
C26_NoErrorEscapes ==
    /\ op = "run_integrated_analysis_from_web" =>
           /\ result.raised = "none"
           /\ result.success =
                  EveryStepCompletes(args.basic_inputs, args.score_inputs, args.source)
           /\ result.success =>
                  /\ DOMAIN result = {"raised", "success", "result"}
                  /\ result.result.raised = "none"
                  /\ result.result.revenue_analysis.raised = "none"
                  /\ result.result.integrated_comparison =
                         create_integrated_comparison(result.result.revenue_analysis,
                                                      result.result.score_analysis)
           /\ ~result.success =>
                  /\ DOMAIN result = {"raised", "success", "error"}
                  /\ result.error \in {"KeyError", "ZeroDivisionError"}
           /\ ("capacity" \in DOMAIN args.basic_inputs /\ args.basic_inputs.capacity = R(0))
                  => ~result.success
    /\ op = "basic_analysis" =>
           /\ result.raised = "none"
           /\ (result.success /\ ScoringStepFails(args.data)) =>
                  /\ result.status = 200
                  /\ result.basic_result.raised = "none"
                  /\ "score_result" \notin DOMAIN result
                  /\ "final_recommendation" \notin DOMAIN result
           /\ (result.success /\ ~ScoringStepFails(args.data)) =>
                  /\ "score_result" \in DOMAIN result
                  /\ result.final_recommendation =
                         generate_final_recommendation(result.basic_result,
                                                       result.score_result)
           /\ ~result.success => result.status = 500 /\ "basic_result" \notin DOMAIN result

\* the core raised on capacity 0 and the wrapper answered success False
C26_CoreErrorCaughtWitness ==
    /\ op = "run_integrated_analysis_from_web"
    /\ BasicKeys \subseteq DOMAIN args.basic_inputs
    /\ args.basic_inputs.capacity = R(0)
    /\ result = [raised |-> "none", success |-> FALSE, error |-> "ZeroDivisionError"]

\* a key of score_inputs was missing
C26_MissingKeyWitness ==
    /\ op = "run_integrated_analysis_from_web"
    /\ BasicKeys \subseteq DOMAIN args.basic_inputs
    /\ args.basic_inputs.capacity = R(1000)
    /\ "v2g_ports" \notin DOMAIN args.score_inputs
    /\ result = [raised |-> "none", success |-> FALSE, error |-> "KeyError"]

\* every step completed
C26_SuccessWitness ==
    /\ op = "run_integrated_analysis_from_web"
    /\ result.success
    /\ result.result.integrated_comparison.final_recommendation \in {"DR", "SMP"}

\* the scoring step of basic_analysis failed after the basic step succeeded
C26_ScoringFailedWitness ==
    /\ op = "basic_analysis"
    /\ ScoringStepFails(args.data)
    /\ result.success
    /\ DOMAIN result = {"raised", "success", "status", "basic_result"}

\* both steps of basic_analysis succeeded
C26_BothStepsWitness ==
    /\ op = "basic_analysis"
    /\ result.success
    /\ "final_recommendation" \in DOMAIN result

\* the basic step of basic_analysis failed
C26_BasicFailedWitness ==
    /\ op = "basic_analysis"
    /\ ~result.success
    /\ result.error = "ZeroDivisionError"

---------------------------------------------------------------------------
(* C27: the DR line never pays back within ten years                       *)

\* C27: for capacity_kw > 0, any location and a DR utilization in [0, 1], the
\* DR line of generate_comparison_report has an annual revenue below 15% of
\* its total investment, a 10-year roi below 0 and a payback period above 10
\* years.
C27_DrLineNeverPositive ==
    (/\ op = "generate_comparison_report"
     /\ RGt(args.capacity_kw, R(0))
     /\ RLe(R(0), args.utilization_dr) /\ RLe(args.utilization_dr, R(1))) =>
        /\ result.raised = "none"
        /\ RLt(result.DR.revenue.annual_revenue,
               RMul(Q(15, 100), result.DR.costs.total_investment))
        /\ RLt(result.DR.roi_metrics.roi, R(0))
        /\ RGt(result.DR.roi_metrics.payback_period, R(default_operation_years))

\* the best case of the DR line: the largest location factor, utilization 1
\* and the largest scale discount; the payback period is finite
C27_BestCaseWitness ==
    /\ op = "generate_comparison_report"
    /\ args.capacity_kw = R(5000)
    /\ args.location = "sudogwon"
    /\ args.utilization_dr = R(1)
    /\ result.DR.costs.scale_factor = Q(85, 100)
    /\ result.DR.roi_metrics.payback_period # Inf
    /\ RLt(result.DR.roi_metrics.roi, R(0))
    /\ RGt(result.DR.roi_metrics.roi, R(0 - 20))

\* C27, the consequence: a run of risk_analysis whose perturbed capacities
\* are positive reports prob_positive = 0 for the DR line, and no DR roi it
\* collected is positive.
C27_RiskDrNeverPositive ==
    /\ (op = "risk_analysis" /\ result.raised = "none" /\ "dr_rois" \in DOMAIN result) =>
           \A i \in 1..Len(result.dr_rois) : RLt(result.dr_rois[i], R(0))
    /\ (op = "risk_analysis" /\ result.raised = "none" /\ "dr_risk_metrics" \in DOMAIN result) =>
           result.dr_risk_metrics.prob_positive = R(0)

\* a full run in which the SMP line is sometimes positive and the DR line never
C27_RiskReportedWitness ==
    /\ op = "risk_analysis"
    /\ result.raised = "none"
    /\ "dr_risk_metrics" \in DOMAIN result
    /\ result.dr_risk_metrics.prob_positive = R(0)
    /\ RGt(result.smp_risk_metrics.prob_positive, R(0))

---------------------------------------------------------------------------
(* C30: run_web_based_analysis returns an analysis report                  *)

\* C30 (as stated): for every input list, empty or not, the value returned by
\* run_web_based_analysis is an analysis report, never an absent value.
C30_AlwaysAReport ==
    (op = "run_web_based_analysis" /\ result.raised = "none") =>
        /\ result.returned # None
        /\ result.returned = market_benchmarking_report

\* C30, the part that holds: every entry is converted into a BusinessScenario,
\* a missing key taking its default (capacity 1000, sudogwon, DR utilization
\* 0.7, SMP utilization 0.6), and the empty list returns the report.
C30_ScenariosConverted ==
    (op = "run_web_based_analysis" /\ result.raised = "none") =>
        /\ Len(result.scenarios) = Len(args.web_scenarios_data)
        /\ \A i \in 1..Len(result.scenarios) :
               /\ "capacity" \notin DOMAIN args.web_scenarios_data[i]
                      => result.scenarios[i].capacity_kw = R(1000)
               /\ "location" \notin DOMAIN args.web_scenarios_data[i]
                      => result.scenarios[i].location = "sudogwon"
               /\ "dr_utilization" \notin DOMAIN args.web_scenarios_data[i]
                      => result.scenarios[i].utilization_dr = Q(7, 10)
               /\ "smp_utilization" \notin DOMAIN args.web_scenarios_data[i]
                      => result.scenarios[i].utilization_smp = Q(6, 10)
               /\ "location" \in DOMAIN args.web_scenarios_data[i]
                      => result.scenarios[i].location = args.web_scenarios_data[i].location
        /\ Len(args.web_scenarios_data) = 0 => result.returned = market_benchmarking_report
        /\ Len(args.web_scenarios_data) > 0 => result.returned = None

\* a list of one entry without keys: the scenario has the defaults and the
\* value returned is None
C30_NonEmptyReturnsNone ==
    /\ op = "run_web_based_analysis"
    /\ args.web_scenarios_data = << <<>> >>
    /\ result.raised = "none"
    /\ result.scenarios[1].capacity_kw = R(1000)
    /\ result.scenarios[1].utilization_dr = Q(7, 10)
    /\ result.returned = None

===========================================================================
